---- MODULE Spec2Model ----
(***************************************************************************)
(* A model of FinSight (src/src/App.tsx): the state mutation layer of the  *)
(* dashboard component FinanceDashboardV2, the CSV import, the rule-based  *)
(* classifier and the aggregation over the filtered transactions.          *)
(*                                                                         *)
(* Strings are TLA+ strings; a character is a string of length one.        *)
(* `undefined` and the empty string are both modelled as "": every place   *)
(* of the source that reads an optional string tests it for truthiness or  *)
(* passes it through `x || ''`, which treats the two alike.                *)
(***************************************************************************)
EXTENDS Integers, Sequences, FiniteSets, TLC

VARIABLES
    state,          \* AppState: categories, accounts, rules, transactions, settings
    today,          \* the value todayISO() returns
    txDate, txMerchant, txAmount, txType, txCategoryId, txAccountId, txNote,
                    \* the fields of the "add transaction" form
    importText,     \* the text area of the import dialog
    datePreset, accountFilter, search,
                    \* the filters of the header
    nextUid,        \* number of ids uid() has handed out
    localStorage,   \* what the browser's storage holds under the two keys
    storageFault,   \* which accesses of the storage throw: none, the writes, all
    theme,          \* ThemeMode: "light" or "dark"
    prefersDark,    \* whether (prefers-color-scheme: dark) matches
    themeChosen,    \* history: the user has pressed the theme toggle
    mounted,        \* the component is on the page (no error escaped an effect)
    last,           \* the handler that ran last, with what it read
    call            \* the last application of a pure function, with its result

vars == <<state, today, txDate, txMerchant, txAmount, txType, txCategoryId,
          txAccountId, txNote, importText, datePreset, accountFilter, search,
          nextUid, localStorage, storageFault, theme, prefersDark,
         themeChosen, mounted, last, call>>

-----------------------------------------------------------------------------
(* Characters and strings                                                  *)

Char(s, i) == SubSeq(s, i, i)

\* The printable ASCII characters in code order: codes 32..95 and 97..126
\* (the grave accent, code 96, occurs in no text of the model).
AsciiLow == " !\"#$%&'()*+,-./0123456789:;<=>?@ABCDEFGHIJKLMNOPQRSTUVWXYZ[\\]^_"

AsciiHigh == "abcdefghijklmnopqrstuvwxyz{|}~"

\* The UTF-16 code unit of each character the model's texts hold (of the
\* characters below 32: tab, line feed and carriage return).
CharCodes ==
    [c \in {Char(AsciiLow, i) : i \in 1..Len(AsciiLow)}
            \cup {Char(AsciiHigh, i) : i \in 1..Len(AsciiHigh)}
            \cup {"\t", "\n", "\r"} |->
        IF c = "\t" THEN 9
        ELSE IF c = "\n" THEN 10
        ELSE IF c = "\r" THEN 13
        ELSE IF \E i \in 1..Len(AsciiLow) : Char(AsciiLow, i) = c
        THEN 31 + (CHOOSE i \in 1..Len(AsciiLow) : Char(AsciiLow, i) = c)
        ELSE 96 + (CHOOSE i \in 1..Len(AsciiHigh) : Char(AsciiHigh, i) = c)]

CharCode(c) == CharCodes[c]

IsDigit(c) == CharCode(c) >= 48 /\ CharCode(c) <= 57

DigitVal(c) == CharCode(c) - 48

\* White space as String.prototype.trim sees it.
IsSpace(c) == c \in {" ", "\t", "\n", "\r"}

RECURSIVE trimStart(_)
trimStart(s) ==
    IF s # "" /\ IsSpace(Char(s, 1)) THEN trimStart(Tail(s)) ELSE s

RECURSIVE trimEnd(_)
trimEnd(s) ==
    IF s # "" /\ IsSpace(Char(s, Len(s)))
    THEN trimEnd(SubSeq(s, 1, Len(s) - 1))
    ELSE s

trim(s) == trimEnd(trimStart(s))

\* toLowerCase of one character: the letters A..Z are 32 below a..z.
LowerChars ==
    [c \in DOMAIN CharCodes |->
        IF CharCodes[c] >= 65 /\ CharCodes[c] <= 90
        THEN Char(AsciiHigh, CharCodes[c] + 32 - 96)
        ELSE c]

lowerChar(c) == LowerChars[c]

RECURSIVE toLowerCase(_)
toLowerCase(s) ==
    IF s = "" THEN "" ELSE lowerChar(Char(s, 1)) \o toLowerCase(Tail(s))

\* String.prototype.includes
includes(hay, needle) ==
    \E i \in 0..(Len(hay) - Len(needle)) :
        SubSeq(hay, i + 1, i + Len(needle)) = needle

safeLower(s) == toLowerCase(s)

\* Lexicographic comparison of strings by code unit: a < b and a <= b.
RECURSIVE StrLess(_, _)
StrLess(a, b) ==
    IF b = "" THEN FALSE
    ELSE IF a = "" THEN TRUE
    ELSE IF Char(a, 1) = Char(b, 1) THEN StrLess(Tail(a), Tail(b))
    ELSE CharCode(Char(a, 1)) < CharCode(Char(b, 1))

StrLeq(a, b) == a = b \/ StrLess(a, b)

Max(a, b) == IF a >= b THEN a ELSE b

Abs(n) == IF n < 0 THEN -n ELSE n

RECURSIVE Pow10(_)
Pow10(k) == IF k = 0 THEN 1 ELSE 10 * Pow10(k - 1)

\* Math.round of the rational n / d (d > 0): the nearest integer, a tie going
\* to the larger one (Math.round(-0.5) is 0, Math.round(-1.5) is -1).
MathRound(n, d) == (2 * n + d) \div (2 * d)

RECURSIVE Pow2(_)
Pow2(k) == IF k = 0 THEN 1 ELSE 2 * Pow2(k - 1)

RECURSIVE Gcd(_, _)
Gcd(a, b) == IF b = 0 THEN a ELSE Gcd(b, a % b)

\* The exponent of the double nearest to n / d (n, d > 0): the largest e with
\* 2^e <= n / d.
RECURSIVE FloorLog2(_, _)
FloorLog2(n, d) ==
    IF n >= 2 * d THEN FloorLog2(n, 2 * d) + 1
    ELSE IF n < d THEN FloorLog2(2 * n, d) - 1
    ELSE 0

\* Whether the double (n / d) * 100 lies below the half-way point
\* k + 1/2 its exact value is, k being the floor of the exact value.  With
\* t = |2k + 1| the quotient has the magnitude t / 200 = tt / (8 * dd), dd the
\* part of 25 that t does not cancel.  The division rounds the 53-bit
\* significand to the nearest integer: it is off by -r/dd of its last place
\* (r the remainder of tt * 2^s by dd, s the shift that gives 53 bits) when
\* 2r < dd and by (dd - r)/dd otherwise; 2^20 = 1 modulo 25 and modulo 5.
\* The product by 100 moves that error to 100/2^D last places of the result,
\* D = 6 or 7 the growth of the exponent, and the result leaves the half-way
\* point, in the direction of the error, when that exceeds half a place.
TieLandsBelow(n, k) ==
    LET t   == Abs(2 * k + 1)
        g   == Gcd(t, 25)
        tt  == t \div g
        dd  == 25 \div g
        s   == 52 - FloorLog2(tt, dd)
        r   == ((tt % dd) * (Pow2(s % 20) % dd)) % dd
        D   == FloorLog2(t, 2) - FloorLog2(t, 200)
        smaller == 2 * r < dd /\ 200 * r > Pow2(D) * dd
        larger  == 2 * r > dd /\ 200 * (dd - r) > Pow2(D) * dd
    IN  IF dd = 1 THEN FALSE
        ELSE IF n > 0 THEN smaller ELSE larger

\* Math.round((n / d) * 100) in double arithmetic, n / d (d > 0) being the
\* value a division or Number() rounded to a double.  Off a half-way point
\* the rounding errors of that double and of the product are far below the
\* distance to it and the result is the nearest integer; at one, Math.round
\* takes the larger neighbour unless the double fell below.
MathRoundTimes100(n, d) ==
    LET num == n * 100
        k   == num \div d
    IN  IF 2 * (num - k * d) # d THEN MathRound(num, d)
        ELSE IF TieLandsBelow(n, k) THEN k ELSE k + 1

-----------------------------------------------------------------------------
(* parseMoneyToCents                                                       *)

\* The mutant of CleanMoney: the '-' is discarded with the other characters.
RECURSIVE CleanMoneySignDropped(_)
CleanMoneySignDropped(s) ==
    IF s = "" THEN ""
    ELSE LET c == Char(s, 1) IN
         (IF IsDigit(c) \/ c = "." THEN c ELSE "") \o CleanMoneySignDropped(Tail(s))

\* input.replace(/[^0-9.-]/g, '')
RECURSIVE CleanMoney(_)
CleanMoney(s) ==
    IF s = "" THEN ""
    ELSE LET c == Char(s, 1) IN
         (IF IsDigit(c) \/ c = "." \/ c = "-" THEN c ELSE "") \o CleanMoney(Tail(s))

RECURSIVE CountChar(_, _)
CountChar(s, c) ==
    IF s = "" THEN 0
    ELSE (IF Char(s, 1) = c THEN 1 ELSE 0) + CountChar(Tail(s), c)

RECURSIVE DigitsValue(_)
DigitsValue(s) ==
    IF s = "" THEN 0
    ELSE DigitsValue(SubSeq(s, 1, Len(s) - 1)) * 10 + DigitVal(Char(s, Len(s)))

RECURSIVE DropChar(_, _)
DropChar(s, c) ==
    IF s = "" THEN ""
    ELSE (IF Char(s, 1) = c THEN "" ELSE Char(s, 1)) \o DropChar(Tail(s), c)

IndexOfChar(s, c) ==
    IF \E i \in 1..Len(s) : Char(s, i) = c
    THEN CHOOSE i \in 1..Len(s) : Char(s, i) = c /\ \A j \in 1..(i - 1) : Char(s, j) # c
    ELSE 0

\* Number(cleaned) for a text of digits, '.' and '-': a number when the text
\* is an optional '-', then digits with at most one '.', and holds a digit;
\* NaN otherwise.  The value is the double nearest to sign * mantissa / 10^scale.
NumberOf(cleaned) ==
    LET neg  == cleaned # "" /\ Char(cleaned, 1) = "-"
        body == IF neg THEN Tail(cleaned) ELSE cleaned
        dot  == IndexOfChar(body, ".")
        ok   == /\ CountChar(body, "-") = 0
                /\ CountChar(body, ".") <= 1
                /\ \E i \in 1..Len(body) : IsDigit(Char(body, i))
    IN  [ isNaN    |-> ~ok,
          sign     |-> IF neg THEN -1 ELSE 1,
          mantissa |-> IF ok THEN DigitsValue(DropChar(body, ".")) ELSE 0,
          scale    |-> IF ok /\ dot > 0 THEN Len(body) - dot ELSE 0 ]

parseMoneyToCents(input) ==
    LET cleaned == CleanMoney(input)
        val     == NumberOf(cleaned)
    IN  IF cleaned = "" \/ cleaned = "-" \/ cleaned = "." THEN 0
        ELSE IF val.isNaN THEN 0
        ELSE MathRoundTimes100(val.sign * val.mantissa, Pow10(val.scale))

-----------------------------------------------------------------------------
(* Classifier                                                              *)

\* The mutant of applySmartCategory: the last matching rule wins.
RECURSIVE applySmartCategoryLastWins(_, _, _)
applySmartCategoryLastWins(merchant, rules, fallbackCategoryId) ==
    IF rules = <<>> THEN fallbackCategoryId
    ELSE LET r == rules[Len(rules)] IN
         IF trim(r.contains) # "" /\ includes(safeLower(merchant), safeLower(r.contains))
         THEN r.categoryId
         ELSE applySmartCategoryLastWins(merchant, SubSeq(rules, 1, Len(rules) - 1),
                                         fallbackCategoryId)

RECURSIVE applySmartCategory(_, _, _)
applySmartCategory(merchant, rules, fallbackCategoryId) ==
    IF rules = <<>> THEN fallbackCategoryId
    ELSE LET m == safeLower(merchant)
             r == Head(rules)
         IN  IF trim(r.contains) = "" THEN applySmartCategory(merchant, Tail(rules), fallbackCategoryId)
             ELSE IF includes(m, safeLower(r.contains)) THEN r.categoryId
             ELSE applySmartCategory(merchant, Tail(rules), fallbackCategoryId)

-----------------------------------------------------------------------------
(* Calendar dates: ISO strings yyyy-mm-dd                                   *)

\* Days since 1970-01-01 of the civil date y-m-d, and back (proleptic
\* Gregorian calendar, as the Date object counts).
DaysFromCivil(y, m, d) ==
    LET yy  == IF m <= 2 THEN y - 1 ELSE y
        era == yy \div 400
        yoe == yy - era * 400
        mp  == IF m > 2 THEN m - 3 ELSE m + 9
        doy == (153 * mp + 2) \div 5 + d - 1
        doe == yoe * 365 + yoe \div 4 - yoe \div 100 + doy
    IN  era * 146097 + doe - 719468

CivilFromDays(z) ==
    LET zz  == z + 719468
        era == zz \div 146097
        doe == zz - era * 146097
        yoe == (doe - doe \div 1460 + doe \div 36524 - doe \div 146096) \div 365
        doy == doe - (365 * yoe + yoe \div 4 - yoe \div 100)
        mp  == (5 * doy + 2) \div 153
        d   == doy - (153 * mp + 2) \div 5 + 1
        m   == IF mp < 10 THEN mp + 3 ELSE mp - 9
        y   == yoe + era * 400 + (IF m <= 2 THEN 1 ELSE 0)
    IN  [y |-> y, m |-> m, d |-> d]

\* String(n).padStart(2, '0')
Pad2(n) == IF n < 10 THEN "0" \o ToString(n) ELSE ToString(n)

\* `${yyyy}-${mm}-${dd}`: the year is not padded.
FormatISO(c) == ToString(c.y) \o "-" \o Pad2(c.m) \o "-" \o Pad2(c.d)

\* new Date(`${dateISO}T00:00:00`) of a well-formed date with a four-digit year.
ParseISO(dateISO) ==
    [y |-> DigitsValue(SubSeq(dateISO, 1, 4)),
     m |-> DigitsValue(SubSeq(dateISO, 6, 7)),
     d |-> DigitsValue(SubSeq(dateISO, 9, 10))]

DayNumber(dateISO) ==
    LET c == ParseISO(dateISO) IN DaysFromCivil(c.y, c.m, c.d)

todayISO == today

monthStartISO(dateISO) ==
    LET c == ParseISO(dateISO) IN ToString(c.y) \o "-" \o Pad2(c.m) \o "-01"

addDaysISO(dateISO, days) == FormatISO(CivilFromDays(DayNumber(dateISO) + days))

dateInRange(dateISO, minISO, maxISO) ==
    StrLeq(minISO, dateISO) /\ StrLeq(dateISO, maxISO)

-----------------------------------------------------------------------------
(* The default dataset                                                     *)

Tx(id, date, merchant, amountCents, type, categoryId, accountId, note) ==
    [id |-> id, date |-> date, merchant |-> merchant, amountCents |-> amountCents,
     type |-> type, categoryId |-> categoryId, accountId |-> accountId, note |-> note]

\* The emoji of a category is presentation only and is left out.
defaultCategories ==
    << [id |-> "cat_gro",    name |-> "Groceries",     monthlyBudgetCents |-> 60000],
       [id |-> "cat_rent",   name |-> "Rent",          monthlyBudgetCents |-> 180000],
       [id |-> "cat_eat",    name |-> "Eating Out",    monthlyBudgetCents |-> 30000],
       [id |-> "cat_trans",  name |-> "Transport",     monthlyBudgetCents |-> 20000],
       [id |-> "cat_subs",   name |-> "Subscriptions", monthlyBudgetCents |-> 15000],
       [id |-> "cat_health", name |-> "Health",        monthlyBudgetCents |-> 15000],
       [id |-> "cat_other",  name |-> "Other",         monthlyBudgetCents |-> 25000],
       [id |-> "cat_income", name |-> "Income"] >>

defaultAccounts ==
    << [id |-> "acc_cheq", name |-> "Chequing",    type |-> "chequing"],
       [id |-> "acc_cc",   name |-> "Credit Card", type |-> "credit"],
       [id |-> "acc_save", name |-> "Savings",     type |-> "savings"] >>

defaultRules ==
    << [id |-> "r1", contains |-> "uber",    categoryId |-> "cat_trans"],
       [id |-> "r2", contains |-> "loblaws", categoryId |-> "cat_gro"],
       [id |-> "r3", contains |-> "spotify", categoryId |-> "cat_subs"] >>

defaultTransactions ==
    << Tx("t1",  addDaysISO(todayISO, -2),  "Loblaws",   8423,   "expense", "cat_gro",    "acc_cc",   "Weekly groceries"),
       Tx("t2",  addDaysISO(todayISO, -4),  "Spotify",   1199,   "expense", "cat_subs",   "acc_cc",   ""),
       Tx("t3",  addDaysISO(todayISO, -6),  "Ramen",     2487,   "expense", "cat_eat",    "acc_cc",   ""),
       Tx("t4",  addDaysISO(todayISO, -10), "Paycheque", 240000, "income",  "cat_income", "acc_cheq", ""),
       Tx("t5",  monthStartISO(todayISO),   "Rent",      180000, "expense", "cat_rent",   "acc_cheq", ""),
       Tx("t6",  "2025-09-08", "Farmers Market",           5600,   "expense", "cat_gro",    "acc_cc",   ""),
       Tx("t7",  "2025-09-15", "Commuter Pass",            12000,  "expense", "cat_trans",  "acc_cc",   ""),
       Tx("t8",  "2025-09-30", "Paycheque",                240000, "income",  "cat_income", "acc_cheq", ""),
       Tx("t9",  "2025-10-10", "Dentist",                  32000,  "expense", "cat_health", "acc_cheq", ""),
       Tx("t10", "2025-10-22", "Meal Prep",                18500,  "expense", "cat_gro",    "acc_cc",   ""),
       Tx("t11", "2025-10-31", "Paycheque",                240000, "income",  "cat_income", "acc_cheq", ""),
       Tx("t12", "2025-11-05", "Holiday Flights",          65000,  "expense", "cat_other",  "acc_cc",   "Family travel"),
       Tx("t13", "2025-11-18", "Grocery Stock-up",         42000,  "expense", "cat_gro",    "acc_cc",   ""),
       Tx("t14", "2025-11-28", "Black Friday Electronics", 98000,  "expense", "cat_other",  "acc_cc",   ""),
       Tx("t15", "2025-11-30", "Paycheque",                240000, "income",  "cat_income", "acc_cheq", ""),
       Tx("t16", "2025-12-03", "Gifts & Decor",            75000,  "expense", "cat_other",  "acc_cc",   ""),
       Tx("t17", "2025-12-12", "Dining Out",               28000,  "expense", "cat_eat",    "acc_cc",   ""),
       Tx("t18", "2025-12-20", "Charity Donation",         30000,  "expense", "cat_other",  "acc_cheq", ""),
       Tx("t19", "2025-12-31", "Paycheque",                240000, "income",  "cat_income", "acc_cheq", "") >>

defaultState ==
    [version      |-> 1,
     accounts     |-> defaultAccounts,
     categories   |-> defaultCategories,
     rules        |-> defaultRules,
     transactions |-> defaultTransactions,
     settings     |-> [currency |-> "CAD", hideCents |-> FALSE, smartCategorize |-> TRUE]]

\* uid(prefix): a string no earlier call returned.
uid(prefix) == prefix \o "_" \o ToString(nextUid + 1)

\* s.replace(/"/g, '""')
RECURSIVE DoubleQuotes(_)
DoubleQuotes(s) ==
    IF s = "" THEN ""
    ELSE (IF Char(s, 1) = "\"" THEN "\"\"" ELSE Char(s, 1)) \o DoubleQuotes(Tail(s))

NeedsQuoting(s) == \E i \in 1..Len(s) : Char(s, i) \in {"\n", "\r", ",", "\""}

\* The mutant of csvEscape: the quotes inside the field are left single.
csvEscapeQuotesKept(value) ==
    IF NeedsQuoting(value) THEN "\"" \o value \o "\"" ELSE value

csvEscape(value) ==
    IF NeedsQuoting(value) THEN "\"" \o DoubleQuotes(value) \o "\"" ELSE value

-----------------------------------------------------------------------------
(* The browser's storage: loadState, saveState, getInitialTheme            *)

STORAGE_KEY == "finsight_v2_state"

THEME_KEY == "budgetboard_theme"

\* What storage holds under a key: nothing (getItem returns null), a text
\* written by something else, or the text JSON.stringify made of a value,
\* held as that value.
Null == [kind |-> "null"]

Text(t) == [kind |-> "text", text |-> t]

Document(v) == [kind |-> "json", value |-> v]

StorageFaults == {"none", "write", "all"}

\* A first visit: nothing is stored under either key.
FirstVisit == [k \in {STORAGE_KEY, THEME_KEY} |-> Null]

\* localStorage.getItem(key); it throws when storage is disabled.
GetItemThrows == storageFault = "all"

getItem(key) == localStorage[key]

\* localStorage.setItem(key, item); it throws when storage is disabled or
\* full.
SetItemThrows == storageFault # "none"

setItem(key, item) == [localStorage EXCEPT ![key] = item]

\* JSON.stringify(state): a key whose value is undefined is left out, that
\* is the note of a transaction that has none; every other value of an
\* AppState is a string, a boolean, a finite integer, an array or an object
\* and is written as it is.
WithoutUndefined(tx) ==
    IF tx.note = "" THEN [f \in DOMAIN tx \ {"note"} |-> tx[f]] ELSE tx

JSONStringify(st) ==
    Document([st EXCEPT !.transactions = [k \in 1..Len(@) |-> WithoutUndefined(@[k])]])

\* The values JSON.parse gives.
JsonNull == [t |-> "null"]

JsonNumber(n) == [t |-> "number", n |-> n]

JsonBoolean(b) == [t |-> "boolean", b |-> b]

JsonString(str) == [t |-> "string", s |-> str]

JsonArray == [t |-> "array"]

JsonObject(o) == [t |-> "object", o |-> o]

Thrown == [threw |-> TRUE]

Parsed(v) == [threw |-> FALSE, value |-> v]

\* JSON.parse of the texts something else may have left under the key.
ParseText(t) ==
    IF t = "null" THEN Parsed(JsonNull)
    ELSE IF t = "0" THEN Parsed(JsonNumber(0))
    ELSE IF t = "1" THEN Parsed(JsonNumber(1))
    ELSE IF t = "false" THEN Parsed(JsonBoolean(FALSE))
    ELSE IF t = "\"v1\"" THEN Parsed(JsonString("v1"))
    ELSE IF t = "[]" THEN Parsed(JsonArray)
    ELSE IF t = "{}" THEN Parsed(JsonObject([v \in {} |-> 0]))
    ELSE IF t = "{\"version\":2}" THEN Parsed(JsonObject([version |-> 2]))
    ELSE IF t = "{\"version\":1}" THEN Parsed(JsonObject([version |-> 1]))
    ELSE IF t = "{\"version\":1,\"transactions\":[]}"
         THEN Parsed(JsonObject([version |-> 1, transactions |-> <<>>]))
    ELSE Thrown

\* JSON.parse(raw)
JSONParse(item) ==
    IF item.kind = "json" THEN Parsed(JsonObject(item.value)) ELSE ParseText(item.text)

\* !raw and !parsed
FalsyItem(item) == item.kind = "null" \/ (item.kind = "text" /\ item.text = "")

Falsy(v) ==
    \/ v.t = "null"
    \/ v.t = "number" /\ v.n = 0
    \/ v.t = "boolean" /\ ~v.b
    \/ v.t = "string" /\ v.s = ""

\* parsed.version !== 1
VersionIsNot1(v) ==
    IF v.t = "object" /\ "version" \in DOMAIN v.o THEN v.o.version # 1 ELSE TRUE

\* Reading a key the text left out gives undefined: the note of a
\* transaction read back from storage.
ReadBack(o) ==
    IF "transactions" \in DOMAIN o
    THEN [o EXCEPT !.transactions =
             [k \in 1..Len(@) |->
                 IF "note" \in DOMAIN @[k] THEN @[k]
                 ELSE [f \in DOMAIN @[k] \cup {"note"} |-> IF f = "note" THEN "" ELSE @[k][f]]]]
    ELSE o

\* The mutant of loadState: the version is not looked at.
loadStateAnyVersion ==
    IF GetItemThrows THEN defaultState
    ELSE LET raw == getItem(STORAGE_KEY) IN
         IF FalsyItem(raw) THEN defaultState
         ELSE LET parsed == JSONParse(raw) IN
              IF parsed.threw THEN defaultState
              ELSE IF Falsy(parsed.value) \/ parsed.value.t # "object" THEN defaultState
              ELSE ReadBack(parsed.value.o)

\* loadState() in a browser whose storage holds `storage`
LoadFrom(storage) ==
    IF GetItemThrows THEN defaultState
    ELSE LET raw == storage[STORAGE_KEY] IN
         IF FalsyItem(raw) THEN defaultState
         ELSE LET parsed == JSONParse(raw) IN
              IF parsed.threw THEN defaultState
              ELSE IF Falsy(parsed.value) \/ VersionIsNot1(parsed.value) THEN defaultState
              ELSE ReadBack(parsed.value.o)

loadState == LoadFrom(localStorage)

\* The mutant of saveState: the rules are left out of what is written.
saveStateWithoutRules(st) == setItem(STORAGE_KEY, JSONStringify([st EXCEPT !.rules = <<>>]))

\* saveState(state) when setItem does not throw
saveState(st) == setItem(STORAGE_KEY, JSONStringify(st))

\* getInitialTheme() inside the try of the useState initialiser: "light"
\* when reading the storage throws.
InitialThemeFrom(storage) ==
    IF GetItemThrows THEN "light"
    ELSE LET stored == storage[THEME_KEY] IN
         IF stored.kind = "text" /\ stored.text \in {"light", "dark"} THEN stored.text
         ELSE IF prefersDark THEN "dark" ELSE "light"

getInitialTheme == InitialThemeFrom(localStorage)

\* The body of the effect on [theme]: the write is tried and a throw is
\* ignored.
PersistTheme(storage, mode) ==
    IF SetItemThrows THEN storage ELSE [storage EXCEPT ![THEME_KEY] = Text(mode)]

-----------------------------------------------------------------------------
(* CSV parsing                                                             *)

\* cur.replace(/\r/g, '')
StripCR(s) == DropChar(s, "\r")

\* One pass of the tokenizer loop of parseCSVText, at position i of the text.
\* `skip` tells that the pass before consumed this character too (its i++);
\* a position past the end of the text reads as undefined, no character.
CsvStep(text, i, st) ==
    LET ch   == Char(text, i)
        next == IF i + 1 <= Len(text) THEN Char(text, i + 1) ELSE ""
    IN  IF st.skip THEN [st EXCEPT !.skip = FALSE]
        ELSE IF st.inQuotes
        THEN IF ch = "\"" /\ next = "\""
             THEN [st EXCEPT !.cur = @ \o "\"", !.skip = TRUE]
             ELSE IF ch = "\""
             THEN [st EXCEPT !.inQuotes = FALSE]
             ELSE [st EXCEPT !.cur = @ \o ch]
        ELSE IF ch = "\""
        THEN [st EXCEPT !.inQuotes = TRUE]
        ELSE IF ch = ","
        THEN [st EXCEPT !.row = Append(@, st.cur), !.cur = ""]
        ELSE IF ch = "\n"
        THEN [st EXCEPT !.rows = Append(@, Append(st.row, StripCR(st.cur))),
                        !.row = <<>>, !.cur = ""]
        ELSE [st EXCEPT !.cur = @ \o ch]

\* The passes at positions lo..hi in order.  The range is split in halves
\* and the first half is evaluated (by the test on it) before the second is
\* entered, which keeps the evaluation shallow; the result is that of the
\* passes taken one after the other.
RECURSIVE CsvLoop(_, _, _, _)
CsvLoop(text, lo, hi, st) ==
    IF lo > hi THEN st
    ELSE IF lo = hi THEN CsvStep(text, lo, st)
    ELSE LET mid  == (lo + hi) \div 2
             half == CsvLoop(text, lo, mid, st)
         IN  IF half.skip \in BOOLEAN THEN CsvLoop(text, mid + 1, hi, half) ELSE st

\* The rows of parseCSVText before trimming: the loop, then the last push.
CsvScan(text) ==
    LET st == CsvLoop(text, 1, Len(text),
                      [rows |-> <<>>, row |-> <<>>, cur |-> "", inQuotes |-> FALSE, skip |-> FALSE])
    IN  Append(st.rows, Append(st.row, StripCR(st.cur)))

TrimCells(r) == [k \in 1..Len(r) |-> trim(r[k])]

HasContent(r) == \E k \in 1..Len(r) : Len(r[k]) > 0

parseCSVText(text) ==
    LET rows == CsvScan(text)
    IN  SelectSeq([k \in 1..Len(rows) |-> TrimCells(rows[k])], HasContent)

-----------------------------------------------------------------------------
(* Import                                                                  *)

\* header.indexOf(name), counted from 1; 0 stands for -1.
IndexOf(header, name) ==
    IF \E k \in 1..Len(header) : header[k] = name
    THEN CHOOSE k \in 1..Len(header) :
            header[k] = name /\ \A j \in 1..(k - 1) : header[j] # name
    ELSE 0

\* r[i]: the cell, or undefined (read as "") outside the row.
Cell(r, i) == IF i >= 1 /\ i <= Len(r) THEN r[i] ELSE ""

\* new Map(list.map(x => [safeLower(x.name), x.id])).get(key): a later entry
\* of the same name replaces an earlier one; "" stands for undefined.
RECURSIVE IdByNameUpTo(_, _, _)
IdByNameUpTo(list, key, k) ==
    IF k = 0 THEN ""
    ELSE IF safeLower(list[k].name) = key THEN list[k].id
    ELSE IdByNameUpTo(list, key, k - 1)

IdByName(list, key) == IdByNameUpTo(list, key, Len(list))

OrElse(v, default) == IF v = "" THEN default ELSE v

\* The mutant of ImportColumns: the amount column is looked up under the
\* name of the merchant column.
ImportColumnsAmountFromMerchant(header) ==
    [date     |-> IndexOf(header, "date"),
     merchant |-> IndexOf(header, "merchant"),
     amount   |-> IndexOf(header, "merchant"),
     type     |-> IndexOf(header, "type"),
     category |-> IndexOf(header, "category"),
     account  |-> IndexOf(header, "account"),
     note     |-> IndexOf(header, "note")]

\* dateIdx .. noteIdx of importFromText
ImportColumns(header) ==
    [date     |-> IndexOf(header, "date"),
     merchant |-> IndexOf(header, "merchant"),
     amount   |-> IndexOf(header, "amount"),
     type     |-> IndexOf(header, "type"),
     category |-> IndexOf(header, "category"),
     account  |-> IndexOf(header, "account"),
     note     |-> IndexOf(header, "note")]

\* Math.abs(parseMoneyToCents(amount)) of a data row
ImportAmountCents(amount) == Abs(parseMoneyToCents(amount))

\* The mutant of ImportRowValid: the row is kept whatever its amount.
ImportRowValidAnyAmount(date, merchant, amount) ==
    date # "" /\ merchant # "" /\ amount # ""

\* The two `continue` tests of the row loop, negated.
ImportRowValid(date, merchant, amount) ==
    /\ ~(date = "" \/ merchant = "" \/ amount = "")
    /\ ~(ImportAmountCents(amount) <= 0)

\* The mutant of ResolveCategory: an unresolvable category goes to the classifier.
ResolveCategorySmartFallback(type, categoryNameVal, merchant, st) ==
    IF type = "income" THEN "cat_income"
    ELSE IF categoryNameVal # ""
            /\ IdByName(st.categories, safeLower(categoryNameVal)) # ""
    THEN IdByName(st.categories, safeLower(categoryNameVal))
    ELSE IF st.settings.smartCategorize
    THEN applySmartCategory(merchant, st.rules, "cat_other")
    ELSE "cat_other"

\* resolvedCategoryId of a data row
ResolveCategory(type, categoryNameVal, merchant, st) ==
    IF type = "income" THEN "cat_income"
    ELSE IF categoryNameVal # ""
    THEN OrElse(IdByName(st.categories, safeLower(categoryNameVal)), "cat_other")
    ELSE IF st.settings.smartCategorize
    THEN applySmartCategory(merchant, st.rules, "cat_other")
    ELSE "cat_other"

\* resolvedAccountId of a data row
ResolveAccount(accountNameVal, st) ==
    OrElse(IdByName(st.accounts, safeLower(accountNameVal)), "acc_cc")

\* What the body of the row loop reads from row r.
ImportRow(r, col) ==
    [date     |-> LET c == Cell(r, col.date) IN SubSeq(c, 1, IF Len(c) < 10 THEN Len(c) ELSE 10),
     merchant |-> Cell(r, col.merchant),
     amount   |-> Cell(r, col.amount),
     type     |-> OrElse(Cell(r, col.type), "expense"),
     category |-> IF col.category >= 1 THEN Cell(r, col.category) ELSE "",
     account  |-> IF col.account >= 1 THEN Cell(r, col.account) ELSE "",
     note     |-> IF col.note >= 1 THEN Cell(r, col.note) ELSE ""]

\* The transaction pushed for a valid row, with the n-th fresh id.
ImportTx(r, col, st, n) ==
    LET c == ImportRow(r, col) IN
    Tx("tx_" \o ToString(n), c.date, c.merchant, ImportAmountCents(c.amount),
       IF c.type = "income" THEN "income" ELSE "expense",
       ResolveCategory(c.type, c.category, c.merchant, st),
       ResolveAccount(c.account, st), c.note)

\* The row loop from row i on: `next`, given that n ids were handed out.
RECURSIVE ImportLoop(_, _, _, _, _)
ImportLoop(rows, i, col, st, n) ==
    IF i > Len(rows) THEN <<>>
    ELSE LET c == ImportRow(rows[i], col) IN
         IF ImportRowValid(c.date, c.merchant, c.amount)
         THEN <<ImportTx(rows[i], col, st, n + 1)>> \o ImportLoop(rows, i + 1, col, st, n + 1)
         ELSE ImportLoop(rows, i + 1, col, st, n)

\* the header test of importFromText, negated
HeaderAccepted(col) == ~(col.date = 0 \/ col.merchant = 0 \/ col.amount = 0)

\* `next` as importFromText builds it from the text; <<>> when it returns early.
ImportNext(text, st, n) ==
    LET rows == parseCSVText(text) IN
    IF Len(rows) < 2 THEN <<>>
    ELSE LET header == [k \in 1..Len(rows[1]) |-> safeLower(rows[1][k])]
             col    == ImportColumns(header)
         IN  IF ~HeaderAccepted(col) THEN <<>>
             ELSE ImportLoop(rows, 2, col, st, n)

\* The mutant of ImportedTransactions: the new rows are appended.
ImportedTransactionsAppended(next, prev) == prev \o next

\* [...next, ...prev.transactions]
ImportedTransactions(next, prev) == next \o prev

-----------------------------------------------------------------------------
(* Bounds and input sets                                                   *)

\* A handler that needs fresh ids runs only while fewer than MaxUid ids
\* were handed out.
MaxUid == 1

\* The days todayISO() may return (the day does not change during a session).
Todays == {"2026-01-15"}

\* What the user types or picks in the "add transaction" dialog.
MerchantTexts == {"", " ", "Uber Eats "}

AmountTexts == {"", "0", "-10"}

TxTypes == {"expense", "income"}

CategoryChoices == {"cat_other", "cat_gro"}

AccountChoices == {"acc_cc", "acc_cheq"}

DateChoices == {"2025-12-31"}

NoteTexts == {"", " gift "}

\* The rows whose delete button is pressed, and an id no row has.
DeleteTxIds == {"t4", "tx_1", "gone"}

RuleTexts == {" ", " eats "}

RuleCategories == {"cat_eat"}

DeleteRuleIds == {"r1", "rule_1"}

\* What is pasted into the import dialog: a header line and data lines.
FullHeader == "date,merchant,amount,type,category,account,note"

ImportTexts ==
    { "",
      FullHeader,
      FullHeader \o "\n2026-01-02,Uber Eats,12.50,expense,,,",
      FullHeader \o "\n2026-01-03,Paycheque,2400.00,income,Groceries,chequing,pay",
      FullHeader \o "\n2026-01-04,\"Coffee, Shop\",-4.50,expense,eating out,Savings,",
      FullHeader \o "\n2026-01-06,Uber Pool,7,Expense,Dining,Nowhere,",
      FullHeader \o "\n2026-01-05,Uber,0,expense,,,\n,Rent,10,expense,,,\n2026-01-07,,5,expense,,,",
      FullHeader \o "\n2026-01-05,Uber,abc,expense,,,\n2026-01-08,Ramen,3,,,,\r\n\n2026-01-09,Gift,-20,income,,,x",
      "Date, Merchant ,AMOUNT\n2026-01-02,Uber,3\n2026-01-02,Loblaws,0.00\n2026-01-03,Spotify,11.99",
      "date,merchant,type,category\n2026-01-02,Uber,expense,Rent",
      "merchant,amount\nUber,3",
      "date,merchant\n2026-01-02,Studio 54",
      "date,amount,note\n2026-01-02,3,Uber" }

\* The few of them pasted in the runs that also fill the other dialog.
FewImportTexts ==
    { "",
      FullHeader \o "\n2026-01-03,Paycheque,2400.00,income,Groceries,chequing,pay",
      FullHeader \o "\n2026-01-04,\"Coffee, Shop\",-4.50,expense,eating out,Savings,",
      "date,merchant,type,category\n2026-01-02,Uber,expense,Rent" }


-----------------------------------------------------------------------------
(* The handlers of FinanceDashboardV2                                      *)

FormNow ==
    [date |-> txDate, merchant |-> txMerchant, amount |-> txAmount, type |-> txType,
     categoryId |-> txCategoryId, accountId |-> txAccountId, note |-> txNote]

\* The record `last` keeps of a handler run: its name, the AppState, the form
\* and the import text it found, and its argument.
Ran(op, arg) ==
    [op |-> op, before |-> state, form |-> FormNow, text |-> importText, arg |-> arg]

Idle == [op |-> "none", before |-> <<>>, form |-> <<>>, text |-> "", arg |-> ""]

\* The mutant of SuggestedCategory: the type of the form is not looked at.
SuggestedCategoryAnyType(merchant, type, rules, smart, current) ==
    IF ~smart THEN current
    ELSE IF trim(merchant) = "" THEN current
    ELSE applySmartCategory(merchant, rules, "cat_other")

\* The suggestion effect: the category of the form after a render in which
\* txMerchant, txType, state.rules or settings.smartCategorize changed.
SuggestedCategory(merchant, type, rules, smart, current) ==
    IF ~smart THEN current
    ELSE IF trim(merchant) = "" THEN current
    ELSE IF type # "expense" THEN current
    ELSE applySmartCategory(merchant, rules, "cat_other")

\* Math.abs(parseMoneyToCents(txAmount))
AddAmountCents(amount) == Abs(parseMoneyToCents(amount))

\* The mutant of AddTransactionRefused: the merchant is not looked at.
AddTransactionRefusedAmountOnly(merchant, amountCents) == amountCents <= 0

\* the two early returns of addTransaction
AddTransactionRefused(merchant, amountCents) ==
    trim(merchant) = "" \/ amountCents <= 0

\* The mutant of NewTransaction: the category of the form is kept for income.
NewTransactionKeepCategory(id, form, amountCents) ==
    Tx(id, form.date, trim(form.merchant), amountCents, form.type,
       form.categoryId, form.accountId, trim(form.note))

\* The mutant of NewTransaction: the parsed amount is stored with its sign.
NewTransactionRawAmount(id, form, amountCents) ==
    Tx(id, form.date, trim(form.merchant), parseMoneyToCents(form.amount), form.type,
       IF form.type = "income" THEN "cat_income" ELSE form.categoryId,
       form.accountId, trim(form.note))

\* newTx of addTransaction
NewTransaction(id, form, amountCents) ==
    Tx(id, form.date, trim(form.merchant), amountCents, form.type,
       IF form.type = "income" THEN "cat_income" ELSE form.categoryId,
       form.accountId, trim(form.note))

ThemeUnchanged == UNCHANGED <<theme, prefersDark, themeChosen>>

StorageUnchanged == UNCHANGED <<localStorage, storageFault, mounted>>

\* The effect on [state] that follows a render with a new state object:
\* saveState(state), and a throw of setItem escapes the effect and takes
\* the component off the page.
SaveEffect ==
    /\ localStorage' = IF SetItemThrows THEN localStorage ELSE saveState(state')
    /\ mounted' = (mounted /\ ~SetItemThrows)
    /\ UNCHANGED storageFault

FormUnchanged ==
    UNCHANGED <<txDate, txMerchant, txAmount, txType, txCategoryId, txAccountId, txNote>>

FiltersUnchanged == UNCHANGED <<datePreset, accountFilter, search>>

FormPristine ==
    /\ txDate = todayISO /\ txMerchant = "" /\ txAmount = "" /\ txType = "expense"
    /\ txCategoryId = "cat_other" /\ txAccountId = "acc_cc" /\ txNote = ""

addTransaction ==
    LET amountCents == AddAmountCents(txAmount) IN
    /\ last' = Ran("addTransaction", "")
    /\ IF AddTransactionRefused(txMerchant, amountCents)
       THEN /\ FormUnchanged
            /\ UNCHANGED <<state, nextUid>>
            /\ StorageUnchanged
       ELSE /\ nextUid < MaxUid
            /\ state' = [state EXCEPT !.transactions =
                            <<NewTransaction(uid("tx"), FormNow, amountCents)>> \o @]
            /\ SaveEffect
            /\ nextUid' = nextUid + 1
            /\ txDate' = todayISO
            /\ txMerchant' = ""
            /\ txAmount' = ""
            /\ txType' = "expense"
            /\ txCategoryId' = "cat_other"
            /\ txAccountId' = "acc_cc"
            /\ txNote' = ""
    /\ FiltersUnchanged
    /\ UNCHANGED <<today, importText, call>>
    /\ ThemeUnchanged

WithoutId(list, id) == SelectSeq(list, LAMBDA x : x.id # id)

deleteTransaction(id) ==
    /\ last' = Ran("deleteTransaction", id)
    /\ state' = [state EXCEPT !.transactions = WithoutId(@, id)]
    /\ SaveEffect
    /\ FormUnchanged /\ FiltersUnchanged
    /\ UNCHANGED <<today, importText, nextUid, call>>
    /\ ThemeUnchanged

\* setState(defaultState) renders again, and runs the effect on [state],
\* when the state is another object than defaultState; a state equal to the
\* default dataset is taken to be that object.
resetState ==
    /\ last' = Ran("resetState", "")
    /\ state' = defaultState
    /\ IF state = defaultState THEN StorageUnchanged ELSE SaveEffect
    /\ txCategoryId' =
         IF state.rules # defaultState.rules \/ ~state.settings.smartCategorize
         THEN SuggestedCategory(txMerchant, txType, defaultState.rules, TRUE, txCategoryId)
         ELSE txCategoryId
    /\ UNCHANGED <<txDate, txMerchant, txAmount, txType, txAccountId, txNote>>
    /\ FiltersUnchanged
    /\ UNCHANGED <<today, importText, nextUid, call>>
    /\ ThemeUnchanged

\* The mutant of RulesWithNew: the new rule goes behind the others.
RulesWithNewAppended(rule, rules) == rules \o <<rule>>

\* [{ id, contains, categoryId }, ...prev.rules]
RulesWithNew(rule, rules) == <<rule>> \o rules

addRule(contains, categoryId) ==
    LET trimmed == trim(contains) IN
    /\ last' = Ran("addRule", [contains |-> contains, categoryId |-> categoryId])
    /\ IF trimmed = ""
       THEN UNCHANGED <<state, nextUid, txCategoryId>> /\ StorageUnchanged
       ELSE /\ nextUid < MaxUid
            /\ state' = [state EXCEPT !.rules =
                  RulesWithNew([id |-> uid("rule"), contains |-> trimmed,
                                categoryId |-> categoryId], @)]
            /\ nextUid' = nextUid + 1
            /\ SaveEffect
            /\ txCategoryId' = SuggestedCategory(txMerchant, txType, state'.rules,
                                   state.settings.smartCategorize, txCategoryId)
    /\ UNCHANGED <<txDate, txMerchant, txAmount, txType, txAccountId, txNote>>
    /\ FiltersUnchanged
    /\ UNCHANGED <<today, importText, call>>
    /\ ThemeUnchanged

deleteRule(id) ==
    /\ last' = Ran("deleteRule", id)
    /\ state' = [state EXCEPT !.rules = WithoutId(@, id)]
    /\ SaveEffect
    /\ txCategoryId' = SuggestedCategory(txMerchant, txType, state'.rules,
                           state.settings.smartCategorize, txCategoryId)
    /\ UNCHANGED <<txDate, txMerchant, txAmount, txType, txAccountId, txNote>>
    /\ FiltersUnchanged
    /\ UNCHANGED <<today, importText, nextUid, call>>
    /\ ThemeUnchanged

\* onCheckedChange of the two "smart" switches
setSmartCategorize(v) ==
    /\ last' = Ran("setSmartCategorize", "")
    /\ state' = [state EXCEPT !.settings.smartCategorize = v]
    /\ SaveEffect
    /\ txCategoryId' =
         IF v # state.settings.smartCategorize
         THEN SuggestedCategory(txMerchant, txType, state.rules, v, txCategoryId)
         ELSE txCategoryId
    /\ UNCHANGED <<txDate, txMerchant, txAmount, txType, txAccountId, txNote>>
    /\ FiltersUnchanged
    /\ UNCHANGED <<today, importText, nextUid, call>>
    /\ ThemeUnchanged

\* onValueChange of the currency select
setCurrency(v) ==
    /\ last' = Ran("setCurrency", v)
    /\ state' = [state EXCEPT !.settings.currency = v]
    /\ SaveEffect
    /\ FormUnchanged /\ FiltersUnchanged
    /\ UNCHANGED <<today, importText, nextUid, call>>
    /\ ThemeUnchanged

\* onCheckedChange of the "hide cents" switch
setHideCents(v) ==
    /\ last' = Ran("setHideCents", "")
    /\ state' = [state EXCEPT !.settings.hideCents = v]
    /\ SaveEffect
    /\ FormUnchanged /\ FiltersUnchanged
    /\ UNCHANGED <<today, importText, nextUid, call>>
    /\ ThemeUnchanged

\* What the theme handlers found: the theme, what storage held under
\* THEME_KEY and whether the user had pressed the toggle.
ThemeNow == [theme |-> theme, stored |-> localStorage[THEME_KEY], chosen |-> themeChosen]

\* onClick of ThemeToggle: setTheme(nextTheme), and the effect on [theme]
\* that follows the render.
toggleTheme ==
    LET nextTheme == IF theme = "dark" THEN "light" ELSE "dark" IN
    /\ last' = Ran("toggleTheme", ThemeNow)
    /\ theme' = nextTheme
    /\ themeChosen' = TRUE
    /\ localStorage' = PersistTheme(localStorage, nextTheme)
    /\ FormUnchanged /\ FiltersUnchanged
    /\ UNCHANGED <<state, today, importText, nextUid, call>>
    /\ UNCHANGED <<prefersDark, storageFault, mounted>>

\* if (localStorage.getItem(THEME_KEY)) return;  a throw of getItem leaves
\* the handler as well.
HandlerLeaves == GetItemThrows \/ ~FalsyItem(getItem(THEME_KEY))

\* The mutant of colorSchemeChange: the handler does not look at storage.
colorSchemeChangeUnchecked(matches) ==
    LET followed == IF matches THEN "dark" ELSE "light" IN
    /\ matches # prefersDark
    /\ prefersDark' = matches
    /\ last' = Ran("colorSchemeChange", ThemeNow)
    /\ theme' = followed
    /\ localStorage' = IF followed # theme THEN PersistTheme(localStorage, followed)
                       ELSE localStorage
    /\ FormUnchanged /\ FiltersUnchanged
    /\ UNCHANGED <<state, today, importText, nextUid, call>>
    /\ UNCHANGED <<themeChosen, storageFault, mounted>>

\* The system colour scheme changes and the 'change' listener of the media
\* query runs: setTheme(event.matches ? 'dark' : 'light') unless a theme is
\* stored, and the effect on [theme] when the theme is a new one.
colorSchemeChange(matches) ==
    LET followed == IF matches THEN "dark" ELSE "light" IN
    /\ matches # prefersDark
    /\ prefersDark' = matches
    /\ last' = Ran("colorSchemeChange", ThemeNow)
    /\ IF HandlerLeaves
       THEN UNCHANGED <<theme, localStorage>>
       ELSE /\ theme' = followed
            /\ localStorage' = IF followed # theme THEN PersistTheme(localStorage, followed)
                               ELSE localStorage
    /\ FormUnchanged /\ FiltersUnchanged
    /\ UNCHANGED <<state, today, importText, nextUid, call>>
    /\ UNCHANGED <<themeChosen, storageFault, mounted>>

\* The browser outside the program: storage starts or stops throwing, and
\* the user clears what the site has stored.
storageFaultChanges(f) ==
    /\ f # storageFault
    /\ storageFault' = f
    /\ last' = Idle
    /\ FormUnchanged /\ FiltersUnchanged
    /\ UNCHANGED <<state, today, importText, nextUid, call>>
    /\ ThemeUnchanged
    /\ UNCHANGED <<localStorage, mounted>>

storageCleared ==
    /\ localStorage # FirstVisit
    /\ localStorage' = FirstVisit
    /\ last' = Idle
    /\ FormUnchanged /\ FiltersUnchanged
    /\ UNCHANGED <<state, today, importText, nextUid, call>>
    /\ ThemeUnchanged
    /\ UNCHANGED <<storageFault, mounted>>

importFromText ==
    LET next == ImportNext(importText, state, nextUid) IN
    /\ last' = Ran("importFromText", "")
    /\ IF Len(next) = 0
       THEN UNCHANGED <<state, importText, nextUid>> /\ StorageUnchanged
       ELSE /\ nextUid < MaxUid
            /\ state' = [state EXCEPT !.transactions = ImportedTransactions(next, @)]
            /\ nextUid' = nextUid + Len(next)
            /\ SaveEffect
            /\ importText' = ""
    /\ FormUnchanged /\ FiltersUnchanged
    /\ UNCHANGED <<today, call>>
    /\ ThemeUnchanged

\* The onChange handlers of the "add transaction" dialog (a handler called
\* with the value the field holds changes nothing and is left out).
setTxDate(v) ==
    /\ v # txDate
    /\ txDate' = v
    /\ last' = Idle
    /\ UNCHANGED <<txMerchant, txAmount, txType, txCategoryId, txAccountId, txNote>>
    /\ FiltersUnchanged
    /\ UNCHANGED <<state, today, importText, nextUid, call>>
    /\ ThemeUnchanged /\ StorageUnchanged

setTxMerchant(v) ==
    /\ v # txMerchant
    /\ txMerchant' = v
    /\ txCategoryId' = SuggestedCategory(v, txType, state.rules,
                           state.settings.smartCategorize, txCategoryId)
    /\ last' = Idle
    /\ UNCHANGED <<txDate, txAmount, txType, txAccountId, txNote>>
    /\ FiltersUnchanged
    /\ UNCHANGED <<state, today, importText, nextUid, call>>
    /\ ThemeUnchanged /\ StorageUnchanged

setTxAmount(v) ==
    /\ v # txAmount
    /\ txAmount' = v
    /\ last' = Idle
    /\ UNCHANGED <<txDate, txMerchant, txType, txCategoryId, txAccountId, txNote>>
    /\ FiltersUnchanged
    /\ UNCHANGED <<state, today, importText, nextUid, call>>
    /\ ThemeUnchanged /\ StorageUnchanged

setTxType(v) ==
    /\ v # txType
    /\ txType' = v
    /\ txCategoryId' = SuggestedCategory(txMerchant, v, state.rules,
                           state.settings.smartCategorize, txCategoryId)
    /\ last' = Idle
    /\ UNCHANGED <<txDate, txMerchant, txAmount, txAccountId, txNote>>
    /\ FiltersUnchanged
    /\ UNCHANGED <<state, today, importText, nextUid, call>>
    /\ ThemeUnchanged /\ StorageUnchanged

\* The category select is disabled while the type is income.
setTxCategoryId(v) ==
    /\ v # txCategoryId
    /\ txType # "income"
    /\ txCategoryId' = v
    /\ last' = Idle
    /\ UNCHANGED <<txDate, txMerchant, txAmount, txType, txAccountId, txNote>>
    /\ FiltersUnchanged
    /\ UNCHANGED <<state, today, importText, nextUid, call>>
    /\ ThemeUnchanged /\ StorageUnchanged

setTxAccountId(v) ==
    /\ v # txAccountId
    /\ txAccountId' = v
    /\ last' = Idle
    /\ UNCHANGED <<txDate, txMerchant, txAmount, txType, txCategoryId, txNote>>
    /\ FiltersUnchanged
    /\ UNCHANGED <<state, today, importText, nextUid, call>>
    /\ ThemeUnchanged /\ StorageUnchanged

setTxNote(v) ==
    /\ v # txNote
    /\ txNote' = v
    /\ last' = Idle
    /\ UNCHANGED <<txDate, txMerchant, txAmount, txType, txCategoryId, txAccountId>>
    /\ FiltersUnchanged
    /\ UNCHANGED <<state, today, importText, nextUid, call>>
    /\ ThemeUnchanged /\ StorageUnchanged

\* onChange of the import text area
setImportText(v) ==
    /\ v # importText
    /\ importText' = v
    /\ last' = Idle
    /\ FormUnchanged /\ FiltersUnchanged
    /\ UNCHANGED <<state, today, nextUid, call>>
    /\ ThemeUnchanged /\ StorageUnchanged

-----------------------------------------------------------------------------
(* The mutation layer                                                      *)

-----------------------------------------------------------------------------
(* The derived values of the dashboard                                     *)

\* d.setMonth(d.getMonth() + months) followed by the reading of the year and
\* the month: a day the target month does not have runs over into the next.
SetMonthJS(c, months) ==
    LET k  == c.y * 12 + (c.m - 1) + months
        y1 == k \div 12
        m1 == k - y1 * 12 + 1
    IN  CivilFromDays(DaysFromCivil(y1, m1, 1) + c.d - 1)

DatePresets == {"this_month", "last_month", "last_90", "all"}

\* The mutant of dateRangeForPreset: 'all' ends today.
dateRangeForPresetUntilToday(preset) ==
    IF preset = "all" THEN [min |-> "1900-01-01", max |-> todayISO]
    ELSE IF preset = "this_month" THEN [min |-> monthStartISO(todayISO), max |-> todayISO]
    ELSE IF preset = "last_90" THEN [min |-> addDaysISO(todayISO, -89), max |-> todayISO]
    ELSE [min |-> monthStartISO(todayISO), max |-> todayISO]

dateRangeForPreset(preset) ==
    IF preset = "all" THEN [min |-> "1900-01-01", max |-> "2999-12-31"]
    ELSE IF preset = "this_month" THEN [min |-> monthStartISO(todayISO), max |-> todayISO]
    ELSE IF preset = "last_90" THEN [min |-> addDaysISO(todayISO, -89), max |-> todayISO]
    ELSE LET d   == SetMonthJS(ParseISO(todayISO), -1)
             min == ToString(d.y) \o "-" \o Pad2(d.m) \o "-01"
             nxt == SetMonthJS(ParseISO(min), 1)
             end == CivilFromDays(DaysFromCivil(nxt.y, nxt.m, nxt.d) - 1)
         IN  [min |-> min, max |-> FormatISO(end)]

\* The mutant of previousDateRange: the count of days leaves out the first.
previousDateRangeShort(range) ==
    LET dayDiff == Max(0, DayNumber(range.max) - DayNumber(range.min))
        prevMax == DayNumber(range.min) - 1
        prevMin == prevMax - (dayDiff - 1)
    IN  [min |-> FormatISO(CivilFromDays(prevMin)),
         max |-> FormatISO(CivilFromDays(prevMax))]

previousDateRange(range) ==
    LET dayDiff == Max(0, DayNumber(range.max) - DayNumber(range.min)) + 1
        prevMax == DayNumber(range.min) - 1
        prevMin == prevMax - (dayDiff - 1)
    IN  [min |-> FormatISO(CivilFromDays(prevMin)),
         max |-> FormatISO(CivilFromDays(prevMax))]

range == dateRangeForPreset(datePreset)

\* lastMonth of InsightList: the same steps as the last branch of
\* dateRangeForPreset, written out again in the source.
InsightLastMonth ==
    LET d              == SetMonthJS(ParseISO(todayISO), -1)
        lastMonthStart == ToString(d.y) \o "-" \o Pad2(d.m) \o "-01"
        nxt            == SetMonthJS(ParseISO(lastMonthStart), 1)
        lastMonthEnd   == CivilFromDays(DaysFromCivil(nxt.y, nxt.m, nxt.d) - 1)
    IN  [min |-> lastMonthStart, max |-> FormatISO(lastMonthEnd)]

previousRangeWindow == previousDateRange(range)

RECURSIVE categoryName(_, _)
categoryName(categories, id) ==
    IF categories = <<>> THEN "Unknown"
    ELSE IF Head(categories).id = id
         THEN (IF Head(categories).name = "" THEN "Unknown" ELSE Head(categories).name)
         ELSE categoryName(Tail(categories), id)

AccountPasses(t) == accountFilter = "all" \/ t.accountId = accountFilter

\* The mutant of SearchPasses: only the merchant is searched.
SearchPassesMerchantOnly(t) ==
    LET s == safeLower(search)
    IN  s = "" \/ includes(safeLower(t.merchant), s)

SearchPasses(t) ==
    LET s == safeLower(search)
    IN  \/ s = ""
        \/ includes(safeLower(t.merchant), s)
        \/ includes(safeLower(t.note), s)
        \/ includes(safeLower(categoryName(state.categories, t.categoryId)), s)

\* One step of the sort of filteredTx: t goes in front of the first entry
\* that is not dated after it.
RECURSIVE InsertByDateDesc(_, _)
InsertByDateDesc(sorted, t) ==
    IF sorted = <<>> THEN <<t>>
    ELSE IF StrLess(t.date, Head(sorted).date)
         THEN <<Head(sorted)>> \o InsertByDateDesc(Tail(sorted), t)
         ELSE <<t>> \o sorted

RECURSIVE SortByDateDesc(_)
SortByDateDesc(list) ==
    IF list = <<>> THEN <<>>
    ELSE InsertByDateDesc(SortByDateDesc(SubSeq(list, 1, Len(list) - 1)), list[Len(list)])

\* The order the sort leaves between two transactions of one date is the
\* engine's; nothing below depends on it.
filteredTx ==
    SortByDateDesc(
        SelectSeq(state.transactions,
                  LAMBDA t : /\ dateInRange(t.date, range.min, range.max)
                             /\ AccountPasses(t)
                             /\ SearchPasses(t)))

previousRangeTx ==
    SelectSeq(state.transactions,
              LAMBDA t : /\ dateInRange(t.date, previousRangeWindow.min, previousRangeWindow.max)
                         /\ AccountPasses(t))

\* Math.round((net / income) * 100)
RoundedPercent(net, income) == MathRoundTimes100(net, income)

RECURSIVE SumOfType(_, _)
SumOfType(list, type) ==
    IF list = <<>> THEN 0
    ELSE (IF (Head(list).type = "income") = (type = "income")
          THEN Head(list).amountCents ELSE 0) + SumOfType(Tail(list), type)

\* The mutant of TotalsOf: the division by 0 is avoided by dividing by at
\* least 1 instead of by testing the income.
TotalsOfClampedDivisor(list) ==
    LET income  == SumOfType(list, "income")
        expense == SumOfType(list, "expense")
        net     == income - expense
    IN  [income |-> income, expense |-> expense, net |-> net,
         savingsRate |-> MathRound(net * 100, Max(income, 1))]

\* The body of the totals and previousTotals memos.
TotalsOf(list) ==
    LET income  == SumOfType(list, "income")
        expense == SumOfType(list, "expense")
        net     == income - expense
    IN  [income |-> income, expense |-> expense, net |-> net,
         savingsRate |-> IF income > 0 THEN RoundedPercent(net, income) ELSE 0]

totals == TotalsOf(filteredTx)

previousTotals == TotalsOf(previousRangeTx)

\* One turn of the loop of groupByDayNet: the entry of the date of t takes
\* the amount of t, and a date not met before gets an entry behind the
\* others (a Map keeps its keys in the order they were first set).
DayWith(days, t) ==
    LET income  == IF t.type = "income" THEN t.amountCents ELSE 0
        expense == IF t.type = "income" THEN 0 ELSE t.amountCents
        met     == {k \in 1..Len(days) : days[k].date = t.date}
    IN  IF met = {}
        THEN days \o <<[date |-> t.date, netCents |-> income - expense,
                        incomeCents |-> income, expenseCents |-> expense]>>
        ELSE [k \in 1..Len(days) |->
                 IF k \in met
                 THEN [days[k] EXCEPT !.netCents = @ + income - expense,
                                      !.incomeCents = @ + income,
                                      !.expenseCents = @ + expense]
                 ELSE days[k]]

RECURSIVE DaysOfLoop(_, _)
DaysOfLoop(days, transactions) ==
    IF transactions = <<>> THEN days
    ELSE DaysOfLoop(DayWith(days, Head(transactions)), Tail(transactions))

\* One step of the sort of the days, the earlier date first (no two days
\* have one date).
RECURSIVE InsertByDateAsc(_, _)
InsertByDateAsc(sorted, d) ==
    IF sorted = <<>> THEN <<d>>
    ELSE IF StrLess(Head(sorted).date, d.date)
         THEN <<Head(sorted)>> \o InsertByDateAsc(Tail(sorted), d)
         ELSE <<d>> \o sorted

RECURSIVE SortByDateAsc(_)
SortByDateAsc(days) ==
    IF days = <<>> THEN <<>>
    ELSE InsertByDateAsc(SortByDateAsc(SubSeq(days, 1, Len(days) - 1)), days[Len(days)])

groupByDayNet(transactions) == SortByDateAsc(DaysOfLoop(<<>>, transactions))

Reverse(list) == [k \in 1..Len(list) |-> list[Len(list) + 1 - k]]

RECURSIVE RunningPoints(_, _)
RunningPoints(daily, running) ==
    IF daily = <<>> THEN <<>>
    ELSE LET d == Head(daily) IN
         <<[date |-> SubSeq(d.date, 6, Len(d.date)),
            runningCents |-> running + d.netCents,
            incomeCents |-> d.incomeCents,
            expenseCents |-> d.expenseCents]>>
         \o RunningPoints(Tail(daily), running + d.netCents)

\* The mutant of CashflowOf: each point holds the net of its day.
CashflowOfDayNet(filtered) ==
    LET daily == groupByDayNet(Reverse(filtered))
    IN  [k \in 1..Len(daily) |->
            [date |-> SubSeq(daily[k].date, 6, Len(daily[k].date)),
             runningCents |-> daily[k].netCents,
             incomeCents |-> daily[k].incomeCents,
             expenseCents |-> daily[k].expenseCents]]

\* The body of the cashflow memo.
CashflowOf(filtered) == RunningPoints(groupByDayNet(Reverse(filtered)), 0)

cashflow == CashflowOf(filteredTx)

\* groupExpenseByCategory(transactions).get(categoryId) || 0
RECURSIVE groupExpenseByCategory(_, _)
groupExpenseByCategory(transactions, categoryId) ==
    IF transactions = <<>> THEN 0
    ELSE (IF Head(transactions).type = "expense" /\ Head(transactions).categoryId = categoryId
          THEN Head(transactions).amountCents ELSE 0)
         + groupExpenseByCategory(Tail(transactions), categoryId)

\* c.monthlyBudgetCents || 0
BudgetOf(c) == IF "monthlyBudgetCents" \in DOMAIN c THEN c.monthlyBudgetCents ELSE 0

\* The mutant of BudgetRow: what is left is not allowed below 0.
BudgetRowClamped(id, budgetCents, spent) ==
    [categoryId |-> id, budgetCents |-> budgetCents, spentCents |-> spent,
     remainingCents |-> Max(0, budgetCents - spent)]

\* One row of budgetStats.
BudgetRow(id, budgetCents, spent) ==
    [categoryId |-> id, budgetCents |-> budgetCents, spentCents |-> spent,
     remainingCents |-> budgetCents - spent]

\* One step of the sort of the rows, by what was spent, the larger first; a
\* row stays behind the rows that spent as much and stood before it.
RECURSIVE InsertBySpentDesc(_, _)
InsertBySpentDesc(sorted, r) ==
    IF sorted = <<>> THEN <<r>>
    ELSE IF Head(sorted).spentCents >= r.spentCents
         THEN <<Head(sorted)>> \o InsertBySpentDesc(Tail(sorted), r)
         ELSE <<r>> \o sorted

RECURSIVE SortBySpentDesc(_)
SortBySpentDesc(rows) ==
    IF rows = <<>> THEN <<>>
    ELSE InsertBySpentDesc(SortBySpentDesc(SubSeq(rows, 1, Len(rows) - 1)), rows[Len(rows)])

RECURSIVE SumField(_, _)
SumField(rows, field) ==
    IF rows = <<>> THEN 0 ELSE Head(rows)[field] + SumField(Tail(rows), field)

\* The mutant of budgetStats: what was spent is taken from the filtered list.
budgetStatsFiltered ==
    LET budgets == SelectSeq(state.categories, LAMBDA c : BudgetOf(c) > 0)
        rows    == SortBySpentDesc(
                       [k \in 1..Len(budgets) |->
                           BudgetRow(budgets[k].id, BudgetOf(budgets[k]),
                                     groupExpenseByCategory(filteredTx, budgets[k].id))])
        totalBudget == SumField(rows, "budgetCents")
        totalSpent  == SumField(rows, "spentCents")
    IN  [rows |-> rows, totalBudget |-> totalBudget, totalSpent |-> totalSpent,
         remaining |-> totalBudget - totalSpent]

budgetStats ==
    LET budgets == SelectSeq(state.categories, LAMBDA c : BudgetOf(c) > 0)
        inRange == SelectSeq(state.transactions,
                             LAMBDA t : dateInRange(t.date, range.min, range.max))
        rows    == SortBySpentDesc(
                       [k \in 1..Len(budgets) |->
                           BudgetRow(budgets[k].id, BudgetOf(budgets[k]),
                                     groupExpenseByCategory(inRange, budgets[k].id))])
        totalBudget == SumField(rows, "budgetCents")
        totalSpent  == SumField(rows, "spentCents")
    IN  [rows |-> rows, totalBudget |-> totalBudget, totalSpent |-> totalSpent,
         remaining |-> totalBudget - totalSpent]

\* The mutant of WithBudget: the other fields of the category are not
\* carried over, its id aside.
WithBudgetAlone(c, monthlyBudgetCents) ==
    [id |-> c.id, monthlyBudgetCents |-> monthlyBudgetCents]

\* The keys of the Map of groupExpenseByCategory, in the order they were
\* first set.
RECURSIVE ExpenseCategories(_, _)
ExpenseCategories(seen, transactions) ==
    IF transactions = <<>> THEN seen
    ELSE LET t == Head(transactions) IN
         ExpenseCategories(
             IF t.type = "expense" /\ \A k \in 1..Len(seen) : seen[k] # t.categoryId
             THEN Append(seen, t.categoryId) ELSE seen,
             Tail(transactions))

\* categoryLabel(categories, id), the emoji aside.
RECURSIVE categoryLabel(_, _)
categoryLabel(categories, id) ==
    IF categories = <<>> THEN "Unknown"
    ELSE IF Head(categories).id = id THEN Head(categories).name
         ELSE categoryLabel(Tail(categories), id)

\* One step of the sort of the slices, the larger value first; a slice stays
\* behind the slices of the same value that stood before it.
RECURSIVE InsertByValueDesc(_, _)
InsertByValueDesc(sorted, r) ==
    IF sorted = <<>> THEN <<r>>
    ELSE IF Head(sorted).value >= r.value
         THEN <<Head(sorted)>> \o InsertByValueDesc(Tail(sorted), r)
         ELSE <<r>> \o sorted

RECURSIVE SortByValueDesc(_)
SortByValueDesc(rows) ==
    IF rows = <<>> THEN <<>>
    ELSE InsertByValueDesc(SortByValueDesc(SubSeq(rows, 1, Len(rows) - 1)), rows[Len(rows)])

\* The body of the categoryPie memo.
PieOf(filtered) ==
    LET ids  == ExpenseCategories(<<>>, filtered)
        rows == SortByValueDesc(
                    [k \in 1..Len(ids) |->
                        [categoryId |-> ids[k],
                         name |-> categoryLabel(state.categories, ids[k]),
                         value |-> groupExpenseByCategory(filtered, ids[k])]])
    IN  SubSeq(rows, 1, IF Len(rows) < 8 THEN Len(rows) ELSE 8)

categoryPie == PieOf(filteredTx)

\* { ...c, monthlyBudgetCents }
WithBudget(c, monthlyBudgetCents) ==
    [f \in DOMAIN c \cup {"monthlyBudgetCents"} |->
        IF f = "monthlyBudgetCents" THEN monthlyBudgetCents ELSE c[f]]

upsertCategoryBudget(categoryId, monthlyBudgetCents) ==
    /\ last' = Ran("upsertCategoryBudget", categoryId)
    /\ state' = [state EXCEPT !.categories =
                    [k \in 1..Len(@) |->
                        IF @[k].id = categoryId THEN WithBudget(@[k], monthlyBudgetCents)
                        ELSE @[k]]]
    /\ SaveEffect
    /\ FormUnchanged /\ FiltersUnchanged
    /\ UNCHANGED <<today, importText, nextUid, call>>
    /\ ThemeUnchanged

\* (valueCents / 100).toFixed(0): the whole number nearest to the amount,
\* the larger one in magnitude of two that are as near, after the sign.
ToFixed0(valueCents) ==
    LET n == (Abs(valueCents) + 50) \div 100
    IN  IF valueCents < 0 THEN "-" \o ToString(n) ELSE ToString(n)

\* valueCents of the BudgetInput of a category: c.monthlyBudgetCents || 0
ValueCents(st, categoryId) ==
    LET named == {k \in 1..Len(st.categories) : st.categories[k].id = categoryId}
    IN  IF named = {} THEN 0 ELSE BudgetOf(st.categories[CHOOSE k \in named : TRUE])

\* The BudgetInput components of the budget table: `value` is the text of
\* each input, and `edited` tells whether the text was typed in since the
\* input last lost the focus.
BudgetInputs(categoryIds, st) ==
    [fn     |-> "BudgetInput",
     value  |-> [c \in categoryIds |-> ToFixed0(ValueCents(st, c))],
     edited |-> [c \in categoryIds |-> FALSE]]

\* onChange of a BudgetInput: setValue(e.target.value)
budgetInputChange(categoryId, v) ==
    /\ v # call.value[categoryId]
    /\ call' = [call EXCEPT !.value[categoryId] = v, !.edited[categoryId] = TRUE]
    /\ last' = Idle
    /\ FormUnchanged /\ FiltersUnchanged
    /\ UNCHANGED <<state, today, importText, nextUid>>
    /\ ThemeUnchanged /\ StorageUnchanged

\* onBlur of a BudgetInput: upsertCategoryBudget(c.id, Math.max(0,
\* parseMoneyToCents(value))), then the effect on [state] and, when
\* valueCents is another number than before, the effect on
\* [props.valueCents] that sets the text again.
budgetInputBlur(categoryId) ==
    LET value == call.value[categoryId]
        cents == Max(0, parseMoneyToCents(value))
    IN  /\ last' = Ran("budgetInputBlur",
                       [categoryId |-> categoryId, value |-> value,
                        edited |-> call.edited[categoryId]])
        /\ state' = [state EXCEPT !.categories =
                        [k \in 1..Len(@) |->
                            IF @[k].id = categoryId THEN WithBudget(@[k], cents)
                            ELSE @[k]]]
        /\ SaveEffect
        /\ call' = [call EXCEPT
                       !.value[categoryId] =
                           IF cents # ValueCents(state, categoryId) THEN ToFixed0(cents) ELSE @,
                       !.edited[categoryId] = FALSE]
        /\ FormUnchanged /\ FiltersUnchanged
        /\ UNCHANGED <<today, importText, nextUid>>
        /\ ThemeUnchanged

\* The handlers of the filter bar.
setDatePreset(v) ==
    /\ v # datePreset
    /\ datePreset' = v
    /\ last' = Idle
    /\ FormUnchanged
    /\ UNCHANGED <<state, today, importText, accountFilter, search, nextUid, call>>
    /\ ThemeUnchanged /\ StorageUnchanged

setAccountFilter(v) ==
    /\ v # accountFilter
    /\ accountFilter' = v
    /\ last' = Idle
    /\ FormUnchanged
    /\ UNCHANGED <<state, today, importText, datePreset, search, nextUid, call>>
    /\ ThemeUnchanged /\ StorageUnchanged

setSearch(v) ==
    /\ v # search
    /\ search' = v
    /\ last' = Idle
    /\ FormUnchanged
    /\ UNCHANGED <<state, today, importText, datePreset, accountFilter, nextUid, call>>
    /\ ThemeUnchanged /\ StorageUnchanged

\* The browser the explored runs start in: a first visit with working
\* storage and a light system theme, after the first render and its effects
\* (the state and the theme are written to storage).
\* The component after its first render and the effects of that render, in
\* a browser whose storage held `held`: the state and the theme come from
\* storage, then the effect on [state] saves the state, and a throw of that
\* write takes the component off the page, and the effect on [theme]
\* stores the theme.
Constructed(held) ==
    /\ state = LoadFrom(held)
    /\ theme = InitialThemeFrom(held)
    /\ themeChosen = FALSE
    /\ mounted = ~SetItemThrows
    /\ localStorage =
          IF SetItemThrows THEN held
          ELSE [held EXCEPT ![STORAGE_KEY] = JSONStringify(LoadFrom(held)),
                            ![THEME_KEY] = Text(InitialThemeFrom(held))]

BrowserAtStart ==
    /\ storageFault = "none"
    /\ prefersDark = FALSE
    /\ Constructed(FirstVisit)

NoCall == [fn |-> "none"]

Init ==
    /\ today \in Todays
    /\ state = defaultState
    /\ txDate = todayISO
    /\ txMerchant = ""
    /\ txAmount = ""
    /\ txType = "expense"
    /\ txCategoryId = "cat_other"
    /\ txAccountId = "acc_cc"
    /\ txNote = ""
    /\ importText = ""
    /\ datePreset = "this_month"
    /\ accountFilter = "all"
    /\ search = ""
    /\ nextUid = 0
    /\ BrowserAtStart
    /\ last = Idle
    /\ call = NoCall

\* The runs that are explored fill one dialog at a time: a field of the "add
\* transaction" dialog is edited while the import dialog holds no text, and
\* of the date, the account and the note at most one is edited; the handlers
\* outside the dialog run while its form is untouched.
DialogFree == FormPristine /\ importText = ""

DetailsUntouched(fields) ==
    /\ "date" \in fields \/ txDate = todayISO
    /\ "account" \in fields \/ txAccountId = "acc_cc"
    /\ "note" \in fields \/ txNote = ""

Next ==
    \/ importText = "" /\ DetailsUntouched({"date"}) /\ \E v \in DateChoices \cup Todays : setTxDate(v)
    \/ importText = "" /\ \E v \in MerchantTexts : setTxMerchant(v)
    \/ importText = "" /\ \E v \in AmountTexts : setTxAmount(v)
    \/ importText = "" /\ \E v \in TxTypes : setTxType(v)
    \/ importText = "" /\ \E v \in CategoryChoices : setTxCategoryId(v)
    \/ importText = "" /\ DetailsUntouched({"account"}) /\ \E v \in AccountChoices : setTxAccountId(v)
    \/ importText = "" /\ DetailsUntouched({"note"}) /\ \E v \in NoteTexts : setTxNote(v)
    \/ importText = "" /\ addTransaction
    \/ DialogFree /\ \E id \in DeleteTxIds : deleteTransaction(id)
    \/ DialogFree /\ resetState
    \/ FormPristine /\ \E v \in FewImportTexts : setImportText(v)
    \/ FormPristine /\ importFromText

Spec == Init /\ [][Next]_vars

-----------------------------------------------------------------------------
(* The import dialog, the rules and the smart switch                       *)

NextImport ==
    \/ \E v \in ImportTexts : setImportText(v)
    \/ importFromText
    \/ \E c \in RuleTexts, k \in RuleCategories : addRule(c, k)
    \/ \E id \in DeleteRuleIds : deleteRule(id)
    \/ \E v \in BOOLEAN : setSmartCategorize(v)
    \/ resetState

SpecImport == Init /\ [][NextImport]_vars

\* The dashboard: the filters, and deletions that change what they select.
AccountFilters == {"all", "acc_cheq", "acc_cc"}

SearchTexts == {"", "PAY", "gro", "Family"}

ViewDeleteIds == {"t4", "t19", "t16"}

NextView ==
    \/ \E v \in DatePresets : setDatePreset(v)
    \/ \E v \in AccountFilters : setAccountFilter(v)
    \/ \E v \in SearchTexts : setSearch(v)
    \/ \E id \in ViewDeleteIds : deleteTransaction(id)
    \/ resetState

SpecView == Init /\ [][NextView]_vars

\* The classifier on its own: the merchant, the rule list and the fallback
\* are drawn at the start, and the one step applies applySmartCategory.
MaxRules == 2

Rule(id, contains, categoryId) ==
    [id |-> id, contains |-> contains, categoryId |-> categoryId]

RulePool ==
    { Rule("a", "uber", "transport"),
      Rule("b", "uber eats", "food"),
      Rule("c", "TORONTO", "city"),
      Rule("d", " uber ", "padded"),
      Rule("e", " ", "blank"),
      Rule("f", "", "empty") }

RuleLists == UNION {[1..n -> RulePool] : n \in 0..MaxRules}

ClassifierMerchants == {"Uber Eats Toronto", "Take Uber Home", "UBER", "Loblaws", ""}

Fallbacks == {"cat_other", "none"}

InitClassifier ==
    /\ today \in Todays
    /\ state = defaultState
    /\ txDate = todayISO /\ txMerchant = "" /\ txAmount = "" /\ txType = "expense"
    /\ txCategoryId = "cat_other" /\ txAccountId = "acc_cc" /\ txNote = ""
    /\ importText = ""
    /\ datePreset = "this_month" /\ accountFilter = "all" /\ search = ""
    /\ nextUid = 0
    /\ BrowserAtStart
    /\ last = Idle
    /\ \E m \in ClassifierMerchants, rs \in RuleLists, f \in Fallbacks :
          call = [fn |-> "applySmartCategory", merchant |-> m, rules |-> rs,
                  fallbackCategoryId |-> f, returned |-> FALSE, result |-> ""]

Classify ==
    /\ ~call.returned
    /\ call' = [call EXCEPT !.returned = TRUE,
                            !.result = applySmartCategory(call.merchant, call.rules,
                                                          call.fallbackCategoryId)]
    /\ FormUnchanged /\ FiltersUnchanged
    /\ UNCHANGED <<state, today, importText, nextUid, last>>
    /\ ThemeUnchanged /\ StorageUnchanged

NextClassifier == Classify

SpecClassifier == InitClassifier /\ [][NextClassifier]_vars

\* What every run starts from, the record of the last application aside.
AppAtStartOn(days) ==
    /\ today \in days
    /\ state = defaultState
    /\ txDate = todayISO /\ txMerchant = "" /\ txAmount = "" /\ txType = "expense"
    /\ txCategoryId = "cat_other" /\ txAccountId = "acc_cc" /\ txNote = ""
    /\ importText = ""
    /\ datePreset = "this_month" /\ accountFilter = "all" /\ search = ""
    /\ nextUid = 0
    /\ last = Idle

AtStartOn(days) == AppAtStartOn(days) /\ BrowserAtStart

AtStart == AtStartOn(Todays)

CallUnchanged ==
    /\ FormUnchanged /\ FiltersUnchanged
    /\ UNCHANGED <<state, today, importText, nextUid, last>>
    /\ ThemeUnchanged /\ StorageUnchanged

\* The totals on their own: the income and the expense of the filtered
\* transactions are drawn at the start, and the one step computes the memo.
MaxIncome == 40

MaxExpense == 120

Incomes == (1..MaxIncome) \cup {200, 240000}

Expenses == (0..MaxExpense) \cup {203, 192109}

TotalsInput(income, expense) ==
    <<Tx("in", todayISO, "Paycheque", income, "income", "cat_income", "acc_cheq", "")>>
    \o (IF expense = 0 THEN <<>>
        ELSE <<Tx("out", todayISO, "Rent", expense, "expense", "cat_rent", "acc_cheq", "")>>)

InitTotals ==
    /\ AtStart
    /\ \E i \in Incomes, e \in Expenses :
          call = [fn |-> "totals", income |-> i, expense |-> e,
                  returned |-> FALSE, result |-> <<>>]

ComputeTotals ==
    /\ ~call.returned
    /\ call' = [call EXCEPT !.returned = TRUE,
                            !.result = TotalsOf(TotalsInput(call.income, call.expense))]
    /\ CallUnchanged

NextTotals == ComputeTotals

SpecTotals == InitTotals /\ [][NextTotals]_vars

\* The budgets: the date range, the budget of a category and deletions.
BudgetCategories == {"cat_gro", "cat_other"}

BudgetCents == {0, 100, 500000}

BudgetDeleteIds == {"t1", "t14"}

NextBudget ==
    \/ \E v \in DatePresets : setDatePreset(v)
    \/ \E c \in BudgetCategories, v \in BudgetCents : upsertCategoryBudget(c, v)
    \/ \E id \in BudgetDeleteIds : deleteTransaction(id)
    \/ resetState

SpecBudget == Init /\ [][NextBudget]_vars

\* The inputs of the budget table: a text is typed into the input of a
\* category, and the input loses the focus.
BudgetInputCategories == {"cat_gro", "cat_other"}

BudgetInputTexts == {"", "150.50", "-20", "80", "0.004"}

InitBudgetInput ==
    /\ AppAtStartOn(Todays)
    /\ BrowserAtStart
    /\ call = BudgetInputs(BudgetInputCategories, defaultState)

NextBudgetInput ==
    \/ \E c \in BudgetInputCategories, v \in BudgetInputTexts : budgetInputChange(c, v)
    \/ \E c \in BudgetInputCategories : budgetInputBlur(c)

SpecBudgetInput == InitBudgetInput /\ [][NextBudgetInput]_vars

\* previousDateRange on its own: the range is drawn at the start from dates
\* around the ends of months and years, and the one step applies it.
RangeDates ==
    { "1900-01-01", "2023-12-31", "2024-01-01", "2024-02-28", "2024-02-29",
      "2024-03-01", "2024-03-31", "2025-01-31", "2025-02-28", "2025-03-01",
      "2025-12-01", "2026-01-15", "2999-12-31" }

InitPreviousRange ==
    /\ AtStart
    /\ \E a \in RangeDates, b \in RangeDates :
          /\ StrLeq(a, b)
          /\ call = [fn |-> "previousDateRange", range |-> [min |-> a, max |-> b],
                     returned |-> FALSE, result |-> <<>>]

ApplyPreviousDateRange ==
    /\ ~call.returned
    /\ call' = [call EXCEPT !.returned = TRUE, !.result = previousDateRange(call.range)]
    /\ CallUnchanged

NextPreviousRange == ApplyPreviousDateRange

SpecPreviousRange == InitPreviousRange /\ [][NextPreviousRange]_vars

\* csvEscape and parseCSVText on their own: a field, or the document of the
\* self test, is drawn at the start; one step escapes the field and parses
\* the result, the other parses the document.
MaxFieldLen == 3

FieldChars == {"a", " ", ",", "\"", "\n", "\r"}

RECURSIVE FieldsUpTo(_)
FieldsUpTo(n) ==
    IF n = 0 THEN {""}
    ELSE LET shorter == FieldsUpTo(n - 1)
         IN  shorter \cup {f \o c : f \in shorter, c \in FieldChars}

TestDocument ==
    "date,merchant,amount\n2025-01-01,\"Coffee, Shop\",4.50\n2025-01-02,Rent,1800.00"

InitCsv ==
    /\ AtStart
    /\ \/ \E f \in FieldsUpTo(MaxFieldLen) :
             call = [fn |-> "csvEscape", value |-> f, returned |-> FALSE,
                     escaped |-> "", result |-> <<>>]
       \/ call = [fn |-> "parseCSVText", text |-> TestDocument, returned |-> FALSE,
                  result |-> <<>>]

EscapeThenParse ==
    /\ call.fn = "csvEscape" /\ ~call.returned
    /\ call' = [call EXCEPT !.returned = TRUE,
                            !.escaped = csvEscape(call.value),
                            !.result = parseCSVText(csvEscape(call.value))]
    /\ CallUnchanged

ParseDocument ==
    /\ call.fn = "parseCSVText" /\ ~call.returned
    /\ call' = [call EXCEPT !.returned = TRUE, !.result = parseCSVText(call.text)]
    /\ CallUnchanged

NextCsv == EscapeThenParse \/ ParseDocument

SpecCsv == InitCsv /\ [][NextCsv]_vars

\* parseMoneyToCents on its own: the text is drawn at the start, and the
\* one step applies it.
MaxMoneyLen == 3

MoneyChars == {"1", "5", "0", ".", "-", "$", ",", " "}

RECURSIVE MoneyTextsUpTo(_)
MoneyTextsUpTo(n) ==
    IF n = 0 THEN {""}
    ELSE LET shorter == MoneyTextsUpTo(n - 1)
         IN  shorter \cup {t \o c : t \in shorter, c \in MoneyChars}

MoneyExamples ==
    {"$1,234.56", "-10", "abc", "1.2.3", "1-2", "1.005", "-1.005", "0.575", "12.345", "-.5"}

InitMoney ==
    /\ AtStart
    /\ \E t \in MoneyTextsUpTo(MaxMoneyLen) \cup MoneyExamples :
          call = [fn |-> "parseMoneyToCents", input |-> t, returned |-> FALSE, result |-> 0]

ApplyParseMoney ==
    /\ ~call.returned
    /\ call' = [call EXCEPT !.returned = TRUE, !.result = parseMoneyToCents(call.input)]
    /\ CallUnchanged

NextMoney == ApplyParseMoney

SpecMoney == InitMoney /\ [][NextMoney]_vars

\* dateRangeForPreset and the date filter on their own: the day it is, the
\* preset and the date of a transaction are drawn at the start, and the one
\* step computes the range and tests the date against it.
PresetTodays ==
    {"1900-01-01", "1999-12-31", "2024-02-29", "2026-01-15", "2026-03-31", "2999-12-31"}

FilteredDates ==
    { "1899-12-31", "1900-01-01", "1900-01-02", "1999-12-31", "2024-02-29",
      "2025-12-01", "2026-01-01", "2026-01-15", "2026-03-31", "2999-12-30",
      "2999-12-31", "3000-01-01" }

InitPresetRange ==
    /\ AtStartOn(PresetTodays)
    /\ \E p \in DatePresets, d \in FilteredDates :
          call = [fn |-> "dateRangeForPreset", preset |-> p, date |-> d,
                  returned |-> FALSE, result |-> <<>>, kept |-> FALSE]

ApplyPresetRange ==
    /\ ~call.returned
    /\ LET r == dateRangeForPreset(call.preset)
       IN  call' = [call EXCEPT !.returned = TRUE, !.result = r,
                                !.kept = dateInRange(call.date, r.min, r.max)]
    /\ CallUnchanged

NextPresetRange == ApplyPresetRange

SpecPresetRange == InitPresetRange /\ [][NextPresetRange]_vars

\* loadState and getInitialTheme on their own: what storage holds, how it
\* fails and the system theme are drawn at the start, and the one step
\* applies the function.  `wrote` is the AppState whose saved text the
\* storage holds, if it holds one.
StoredTexts ==
    { "", "null", "0", "1", "false", "\"v1\"", "[]", "{}", "{\"version\":2}",
      "{\"version\":1}", "{\"version\":1,\"transactions\":[]}", "oops", "{\"version\":1" }

SavedStates ==
    { defaultState,
      [defaultState EXCEPT !.transactions = WithoutId(@, "t1")],
      [defaultState EXCEPT !.settings.currency = "USD"],
      [defaultState EXCEPT !.version = 2],
      [defaultState EXCEPT !.version = 0] }

StoredThemes == {Null, Text("light"), Text("dark"), Text(""), Text("system")}

InitLoad ==
    /\ AppAtStartOn(Todays)
    /\ storageFault \in StorageFaults
    /\ prefersDark \in BOOLEAN
    /\ theme = "light" /\ themeChosen = FALSE /\ mounted = FALSE
    /\ \E f \in {"loadState", "getInitialTheme"} :
          \/ /\ f = "loadState"
             /\ \/ /\ localStorage = FirstVisit
                   /\ call = [fn |-> f, wrote |-> <<>>, returned |-> FALSE, result |-> <<>>]
                \/ \E t \in StoredTexts :
                      /\ localStorage = [FirstVisit EXCEPT ![STORAGE_KEY] = Text(t)]
                      /\ call = [fn |-> f, wrote |-> <<>>, returned |-> FALSE, result |-> <<>>]
                \/ \E st \in SavedStates :
                      /\ localStorage = [FirstVisit EXCEPT ![STORAGE_KEY] = JSONStringify(st)]
                      /\ call = [fn |-> f, wrote |-> st, returned |-> FALSE, result |-> <<>>]
          \/ /\ f = "getInitialTheme"
             /\ \E item \in StoredThemes :
                   /\ localStorage = [FirstVisit EXCEPT ![THEME_KEY] = item]
                   /\ call = [fn |-> f, wrote |-> <<>>, returned |-> FALSE, result |-> ""]

ApplyLoadState ==
    /\ call.fn = "loadState" /\ ~call.returned
    /\ call' = [call EXCEPT !.returned = TRUE, !.result = loadState]
    /\ CallUnchanged

ApplyGetInitialTheme ==
    /\ call.fn = "getInitialTheme" /\ ~call.returned
    /\ call' = [call EXCEPT !.returned = TRUE, !.result = getInitialTheme]
    /\ CallUnchanged

NextLoad == ApplyLoadState \/ ApplyGetInitialTheme

SpecLoad == InitLoad /\ [][NextLoad]_vars

\* Every mutation of the AppState, in a browser whose storage may throw.
StorageMerchants == {"Cafe"}

StorageAmounts == {"5"}

StorageImportTexts == {"date,merchant,amount\n2026-01-03,Paycheque,24"}

StorageDeleteIds == {"t1"}

StorageBudgets == {0, 2500}

StorageBudgetCategories == {"cat_gro", "cat_none"}

Currencies == {"CAD", "USD"}

InitStorage ==
    /\ AppAtStartOn(Todays)
    /\ storageFault \in StorageFaults
    /\ prefersDark = FALSE
    /\ Constructed(FirstVisit)
    /\ call = NoCall

NextStorage ==
    \/ \E f \in StorageFaults : storageFaultChanges(f)
    \/ mounted /\ importText = "" /\ \E v \in StorageMerchants : setTxMerchant(v)
    \/ mounted /\ importText = "" /\ \E v \in StorageAmounts : setTxAmount(v)
    \/ mounted /\ importText = "" /\ txMerchant # "" /\ addTransaction
    \/ mounted /\ DialogFree /\ \E id \in StorageDeleteIds : deleteTransaction(id)
    \/ mounted /\ DialogFree /\ \E k \in RuleCategories : addRule(" eats ", k)
    \/ mounted /\ DialogFree /\ deleteRule("r1")
    \/ mounted /\ DialogFree
               /\ \E c \in StorageBudgetCategories, b \in StorageBudgets : upsertCategoryBudget(c, b)
    \/ mounted /\ DialogFree /\ \E v \in BOOLEAN : setSmartCategorize(v)
    \/ mounted /\ DialogFree /\ \E v \in Currencies : setCurrency(v)
    \/ mounted /\ DialogFree /\ \E v \in BOOLEAN : setHideCents(v)
    \/ mounted /\ FormPristine /\ \E v \in StorageImportTexts : setImportText(v)
    \/ mounted /\ FormPristine /\ importFromText
    \/ mounted /\ DialogFree /\ resetState

SpecStorage == InitStorage /\ [][NextStorage]_vars

\* The theme: the toggle, the system colour scheme, and a storage that may
\* throw or be cleared.
InitTheme ==
    /\ AppAtStartOn(Todays)
    /\ storageFault \in StorageFaults
    /\ prefersDark \in BOOLEAN
    /\ \E item \in StoredThemes : Constructed([FirstVisit EXCEPT ![THEME_KEY] = item])
    /\ call = NoCall

NextTheme ==
    \/ mounted /\ toggleTheme
    \/ mounted /\ \E m \in BOOLEAN : colorSchemeChange(m)
    \/ \E f \in StorageFaults : storageFaultChanges(f)
    \/ storageCleared

SpecTheme == InitTheme /\ [][NextTheme]_vars

\* The theme on a first visit: storage holds nothing when the page is
\* opened, so no theme was ever stored before.
InitSystemTheme ==
    /\ AppAtStartOn(Todays)
    /\ storageFault \in StorageFaults
    /\ prefersDark \in BOOLEAN
    /\ Constructed(FirstVisit)
    /\ call = NoCall

SpecSystemTheme == InitSystemTheme /\ [][NextTheme]_vars

\* The rule list: rules are added and deleted.
AddedRuleTexts == {"", "  ", " eats ", "UBER", "lob"}

AddedRuleCategories == {"cat_eat", "cat_gro", "cat_other"}

RuleDeleteIds == {"r1", "r2", "rule_1"}

NextRules ==
    \/ \E c \in AddedRuleTexts, k \in AddedRuleCategories : addRule(c, k)
    \/ \E id \in RuleDeleteIds : deleteRule(id)
    \/ resetState

SpecRules == Init /\ [][NextRules]_vars

\* The suggestion in the dialog: the merchant, the type and the category of
\* the form are edited while rules are added and deleted and the
\* "smart categorize" switch is flipped.
SuggestMerchants == {"", " ", "Uber Eats ", "Loblaws"}

SuggestRuleTexts == {"", " eats "}

SuggestRuleCategories == {"cat_eat"}

SuggestDeleteIds == {"r1", "rule_1"}

SuggestCategoryChoices == {"cat_other", "cat_gro", "cat_rent"}

SuggestAmounts == {"", "5"}

NextSuggest ==
    \/ \E v \in SuggestMerchants : setTxMerchant(v)
    \/ \E v \in SuggestAmounts : setTxAmount(v)
    \/ addTransaction
    \/ \E v \in TxTypes : setTxType(v)
    \/ \E v \in SuggestCategoryChoices : setTxCategoryId(v)
    \/ \E c \in SuggestRuleTexts, k \in SuggestRuleCategories : addRule(c, k)
    \/ \E id \in SuggestDeleteIds : deleteRule(id)
    \/ \E v \in BOOLEAN : setSmartCategorize(v)
    \/ resetState

SpecSuggest == Init /\ [][NextSuggest]_vars

\* The 'last month' window on its own: the day it is is drawn at the start,
\* from every day of sixteen months with a leap February among them, and
\* the one step computes the window of the preset and the one of the
\* insights.
LastMonthTodays ==
    {FormatISO(CivilFromDays(z)) : z \in DaysFromCivil(2023, 12, 1)..DaysFromCivil(2025, 3, 31)}

InitLastMonth ==
    /\ AtStartOn(LastMonthTodays)
    /\ call = [fn |-> "lastMonth", returned |-> FALSE, preset |-> <<>>, insights |-> <<>>]

ApplyLastMonth ==
    /\ ~call.returned
    /\ call' = [call EXCEPT !.returned = TRUE,
                            !.preset = dateRangeForPreset("last_month"),
                            !.insights = InsightLastMonth]
    /\ CallUnchanged

NextLastMonth == ApplyLastMonth

SpecLastMonth == InitLastMonth /\ [][NextLastMonth]_vars

\* The cashflow series on its own: a short list of transactions is drawn at
\* the start, and the one step sorts it as filteredTx does and computes the
\* series and the totals of it.
MaxCashflowLen == 3

CashflowDates == {"2025-12-31", "2026-01-01", "2026-01-02"}

CashflowAmounts == {100, 250}

CashflowTxs ==
    {Tx("x", d, "Shop", a, ty, "cat_other", "acc_cc", "") :
        d \in CashflowDates, a \in CashflowAmounts, ty \in TxTypes}

InitCashflow ==
    /\ AtStart
    /\ \E n \in 0..MaxCashflowLen : \E list \in [1..n -> CashflowTxs] :
          call = [fn |-> "cashflow", input |-> list, returned |-> FALSE,
                  filtered |-> <<>>, result |-> <<>>, totals |-> <<>>]

ComputeCashflow ==
    /\ ~call.returned
    /\ LET filtered == SortByDateDesc(call.input)
       IN  call' = [call EXCEPT !.returned = TRUE,
                                !.filtered = filtered,
                                !.result = CashflowOf(filtered),
                                !.totals = TotalsOf(filtered)]
    /\ CallUnchanged

NextCashflow == ComputeCashflow

SpecCashflow == InitCashflow /\ [][NextCashflow]_vars

-----------------------------------------------------------------------------
(* Claims about addTransaction and the stored transactions                 *)

AddRan == last.op = "addTransaction"

AddedOne ==
    /\ AddRan
    /\ Len(state.transactions) = Len(last.before.transactions) + 1
    /\ Tail(state.transactions) = last.before.transactions

\* C1: addTransaction on a form whose merchant is empty after trimming, or
\* whose amount parses to 0 cents, changes nothing: the AppState after the
\* handler is the AppState before it, the transaction list keeps its length
\* and no id is used.
C1_AddInvalidIsNoOp ==
    ( /\ AddRan
      /\ \/ trim(last.form.merchant) = ""
         \/ Abs(parseMoneyToCents(last.form.amount)) = 0 )
    => /\ state = last.before
       /\ Len(state.transactions) = Len(last.before.transactions)
       /\ FormNow = last.form

\* C1 witness: addTransaction ran on a blank merchant with an amount that is
\* not 0, and on another run it would have been accepted.
C1_Witness ==
    /\ AddRan
    /\ last.form.merchant = " "
    /\ parseMoneyToCents(last.form.amount) = -1000
    /\ state = last.before

\* C2: every transaction of type income is in the category cat_income.
C2_IncomeCategory ==
    \A i \in 1..Len(state.transactions) :
        state.transactions[i].type = "income"
            => state.transactions[i].categoryId = "cat_income"

\* C2 witness: addTransaction stored an income transaction from a form whose
\* category was another one.
C2_Witness ==
    /\ AddedOne
    /\ last.form.type = "income"
    /\ last.form.categoryId \notin {"cat_income", "cat_other"}
    /\ Head(state.transactions).type = "income"

\* C3: every transaction holds an integer amount that is not negative.
C3_AmountNonNegative ==
    \A i \in 1..Len(state.transactions) :
        state.transactions[i].amountCents \in Nat

\* C3 witness: addTransaction stored a transaction from a negative amount.
C3_Witness ==
    /\ AddedOne
    /\ parseMoneyToCents(last.form.amount) < 0
    /\ Head(state.transactions).amountCents = -parseMoneyToCents(last.form.amount)

-----------------------------------------------------------------------------
(* Claims about importFromText                                             *)

ImportRan == last.op = "importFromText"

\* The rows of the text importFromText read, and its lower-cased header.
LastRows == parseCSVText(last.text)

LastHeader == [k \in 1..Len(LastRows[1]) |-> safeLower(LastRows[1][k])]

HeaderNames == {LastHeader[k] : k \in 1..Len(LastHeader)}

HeaderComplete == {"date", "merchant", "amount"} \subseteq HeaderNames

\* The number of transactions the import put in front of the list.
ImportedCount == Len(state.transactions) - Len(last.before.transactions)

\* What the data rows hold under the columns of the header, in file order.
LastDataRows ==
    IF Len(LastRows) < 2 \/ ~HeaderComplete THEN <<>>
    ELSE [k \in 1..(Len(LastRows) - 1) |->
             ImportRow(LastRows[k + 1], ImportColumns(LastHeader))]

CellsFilled(c) == c.date # "" /\ c.merchant # "" /\ c.amount # ""

\* C4: an import whose header row lacks date, merchant or amount leaves the
\* AppState as it was, whatever the data rows hold.
C4_BadHeaderRejected ==
    (ImportRan /\ Len(LastRows) >= 1 /\ ~HeaderComplete)
    => state = last.before /\ ImportedCount = 0

\* C4 witness: an import ran on a header without amount and a data row whose
\* other cells are filled.
C4_Witness ==
    /\ ImportRan
    /\ Len(LastRows) >= 2
    /\ {"date", "merchant"} \subseteq HeaderNames
    /\ "amount" \notin HeaderNames
    /\ LastRows[2][1] # "" /\ LastRows[2][2] # ""
    /\ state = last.before

\* The claim's test of a row as first stated: the parsed amount is positive.
RowKeptIfPositive(c) == CellsFilled(c) /\ parseMoneyToCents(c.amount) > 0

\* The test as amended: the parsed amount is not 0.
RowKeptIfNonZero(c) == CellsFilled(c) /\ parseMoneyToCents(c.amount) # 0

ImportedMerchants ==
    [k \in 1..ImportedCount |-> state.transactions[k].merchant]

MerchantsOf(rowsKept) == [k \in 1..Len(rowsKept) |-> rowsKept[k].merchant]

\* C5 as first stated: the rows that produce a transaction are exactly those
\* with date, merchant and amount filled and a parsed amount above 0.
C5_Original_PositiveOnly ==
    (ImportRan /\ Len(LastRows) >= 2 /\ HeaderComplete)
    => /\ ImportedCount = Len(SelectSeq(LastDataRows, RowKeptIfPositive))
       /\ ImportedMerchants = MerchantsOf(SelectSeq(LastDataRows, RowKeptIfPositive))

\* C5 as amended: the rows that produce a transaction are exactly those with
\* date, merchant and amount filled and a parsed amount other than 0 (a
\* negative amount is imported as its absolute value); the other rows are
\* skipped one by one.
C5_RowsSkippedIndividually ==
    (ImportRan /\ Len(LastRows) >= 2 /\ HeaderComplete)
    => /\ ImportedCount = Len(SelectSeq(LastDataRows, RowKeptIfNonZero))
       /\ ImportedMerchants = MerchantsOf(SelectSeq(LastDataRows, RowKeptIfNonZero))
       /\ \A k \in 1..ImportedCount :
             state.transactions[k].amountCents =
                 Abs(parseMoneyToCents(SelectSeq(LastDataRows, RowKeptIfNonZero)[k].amount))

\* C5 witness: an import skipped a row with amount 0 and kept, after it, a
\* row with a negative amount.
C5_Witness ==
    /\ ImportRan /\ Len(LastRows) >= 2 /\ HeaderComplete
    /\ ImportedCount >= 1
    /\ \E i, j \in 1..Len(LastDataRows) :
          /\ i < j
          /\ CellsFilled(LastDataRows[i]) /\ parseMoneyToCents(LastDataRows[i].amount) = 0
          /\ CellsFilled(LastDataRows[j]) /\ parseMoneyToCents(LastDataRows[j].amount) < 0

\* C6: the list after an import is the new transactions, in the order of
\* their rows in the file, followed by the list before it; an import that
\* yields no row changes nothing.
C6_ImportPrepends ==
    ImportRan
    => /\ ImportedCount >= 0
       /\ SubSeq(state.transactions, ImportedCount + 1, Len(state.transactions))
             = last.before.transactions
       /\ ImportedMerchants = MerchantsOf(SelectSeq(LastDataRows, RowKeptIfNonZero))
       /\ \A k \in 1..ImportedCount :
             state.transactions[k].date = SelectSeq(LastDataRows, RowKeptIfNonZero)[k].date
       /\ ImportedCount = 0 => state = last.before

\* C6 witness: an import put two transactions of different merchants in
\* front of a list that was not empty.
C6_Witness ==
    /\ ImportRan
    /\ ImportedCount = 2
    /\ state.transactions[1].merchant # state.transactions[2].merchant
    /\ Len(last.before.transactions) > 0

NamesCategory(cell, st) ==
    \E k \in 1..Len(st.categories) : safeLower(st.categories[k].name) = safeLower(cell)

CategoryNamed(cell, st) ==
    LET k == CHOOSE k \in 1..Len(st.categories) :
                 safeLower(st.categories[k].name) = safeLower(cell)
    IN  st.categories[k].id

NamesAccount(cell, st) ==
    \E k \in 1..Len(st.accounts) : safeLower(st.accounts[k].name) = safeLower(cell)

AccountNamed(cell, st) ==
    LET k == CHOOSE k \in 1..Len(st.accounts) :
                 safeLower(st.accounts[k].name) = safeLower(cell)
    IN  st.accounts[k].id

ClassifierOrDefault(c, st) ==
    IF st.settings.smartCategorize
    THEN applySmartCategory(c.merchant, st.rules, "cat_other")
    ELSE "cat_other"

\* The category the claim as first stated gives a row: the classifier also
\* decides a category cell that names no category.
ClaimedCategoryOriginal(c, st) ==
    IF c.type = "income" THEN "cat_income"
    ELSE IF NamesCategory(c.category, st) THEN CategoryNamed(c.category, st)
    ELSE ClassifierOrDefault(c, st)

\* The category the amended claim gives a row: the classifier decides only a
\* row without a category cell.
ClaimedCategoryAmended(c, st) ==
    IF c.type = "income" THEN "cat_income"
    ELSE IF NamesCategory(c.category, st) THEN CategoryNamed(c.category, st)
    ELSE IF c.category # "" THEN "cat_other"
    ELSE ClassifierOrDefault(c, st)

ClaimedAccount(c, st) ==
    IF NamesAccount(c.account, st) THEN AccountNamed(c.account, st) ELSE "acc_cc"

LastKeptRows == SelectSeq(LastDataRows, RowKeptIfNonZero)

\* C7 as first stated: a row that is not income gets the category its cell
\* names, and otherwise (cell absent or naming no category) the classifier's
\* result when smartCategorize is on and cat_other when it is off.
C7_Original_ClassifierForUnresolved ==
    (ImportRan /\ ImportedCount = Len(LastKeptRows))
    => \A k \in 1..ImportedCount :
          state.transactions[k].categoryId
              = ClaimedCategoryOriginal(LastKeptRows[k], last.before)

\* C7 as amended: an income row gets cat_income; another row gets the
\* category its cell names (whatever the case of the letters); a cell that is
\* filled but names no category gives cat_other, smartCategorize on or off;
\* an empty or absent cell gives the classifier's result when smartCategorize
\* is on and cat_other when it is off.  The account is the one the account
\* cell names, and acc_cc when it names none.
C7_ImportResolution ==
    (ImportRan /\ ImportedCount = Len(LastKeptRows))
    => \A k \in 1..ImportedCount :
          /\ state.transactions[k].categoryId
                = ClaimedCategoryAmended(LastKeptRows[k], last.before)
          /\ state.transactions[k].accountId
                = ClaimedAccount(LastKeptRows[k], last.before)
          /\ state.transactions[k].type
                = (IF LastKeptRows[k].type = "income" THEN "income" ELSE "expense")

\* C7 witness: with smartCategorize on, an import stored cat_other for a row
\* whose category cell names no category and whose merchant a rule matches.
C7_Witness ==
    /\ ImportRan
    /\ ImportedCount = 1 /\ Len(LastKeptRows) = 1
    /\ last.before.settings.smartCategorize
    /\ LastKeptRows[1].category # ""
    /\ ~NamesCategory(LastKeptRows[1].category, last.before)
    /\ applySmartCategory(LastKeptRows[1].merchant, last.before.rules, "cat_other") = "cat_trans"
    /\ state.transactions[1].categoryId = "cat_other"

-----------------------------------------------------------------------------
(* Claims about applySmartCategory                                         *)

Returned == call.fn = "applySmartCategory" /\ call.returned

\* The contains text of rule i is a substring of the merchant, whatever the
\* case of the letters.
ContainsIsSubstring(i) ==
    includes(toLowerCase(call.merchant), toLowerCase(call.rules[i].contains))

NotBlank(i) == trim(call.rules[i].contains) # ""

\* The trimmed contains text of rule i is a substring of the merchant.
TrimmedIsSubstring(i) ==
    includes(toLowerCase(call.merchant), toLowerCase(trim(call.rules[i].contains)))

\* The result the list order gives when the rules that match are those in
\* Matching: the category of the earliest of them, the fallback without one.
EarliestOf(Matching) ==
    IF Matching = {} THEN call.fallbackCategoryId
    ELSE call.rules[CHOOSE i \in Matching : \A j \in Matching : i <= j].categoryId

\* C8 as first stated: the result is the category of the earliest rule whose
\* contains text is a substring of the merchant (case ignored), and the
\* fallback when there is none.
C8_Original_EarliestSubstring ==
    Returned
    => call.result = EarliestOf({i \in 1..Len(call.rules) : ContainsIsSubstring(i)})

\* C8 as amended: the result is the category of the earliest rule whose
\* contains text is not blank and is a substring of the merchant (case
\* ignored), not of the longest or the most specific one, and the fallback
\* when there is none; rules uber -> transport, uber eats -> food give
\* transport for the merchant Uber Eats Toronto.
C8_FirstMatchWins ==
    Returned
    => call.result =
          EarliestOf({i \in 1..Len(call.rules) : NotBlank(i) /\ ContainsIsSubstring(i)})

\* C8 witness: the rules uber -> transport, uber eats -> food were applied
\* to Uber Eats Toronto and gave transport.
C8_Witness ==
    /\ Returned
    /\ call.merchant = "Uber Eats Toronto"
    /\ Len(call.rules) = 2
    /\ call.rules[1].contains = "uber" /\ call.rules[2].contains = "uber eats"
    /\ call.result = "transport"

\* C9: a rule is matched on its trimmed contains text: a rule that is blank
\* matches no merchant, and a rule with spaces around its text matches
\* exactly the merchants that contain the trimmed text (case ignored).
C9_MatchesOnTrimmedText ==
    Returned
    => call.result =
          EarliestOf({i \in 1..Len(call.rules) : NotBlank(i) /\ TrimmedIsSubstring(i)})

\* The part of C9 about blank rules alone: a list of blank rules gives the
\* fallback.
C9_BlankNeverMatches ==
    (Returned /\ \A i \in 1..Len(call.rules) : ~NotBlank(i))
    => call.result = call.fallbackCategoryId

-----------------------------------------------------------------------------
(* Claims about the totals                                                 *)

\* C10: when the income of the filtered transactions is 0 their savings
\* rate is the number 0, whatever the expense, and so it is for the
\* transactions of the previous period.
C10_SavingsRateZeroWithoutIncome ==
    /\ totals.income = 0 => totals.savingsRate = 0
    /\ previousTotals.income = 0 => previousTotals.savingsRate = 0
    /\ totals.savingsRate \in Int
    /\ previousTotals.savingsRate \in Int

\* C10 witness: the filtered transactions and those of the previous period
\* both hold expenses and no income.
C10_Witness ==
    /\ totals.income = 0 /\ totals.expense > 0 /\ totals.savingsRate = 0
    /\ previousTotals.income = 0 /\ previousTotals.expense > 0
    /\ previousTotals.savingsRate = 0

-----------------------------------------------------------------------------
(* Claims about the rounding of the savings rate                           *)

TotalsReturned == call.fn = "totals" /\ call.returned

\* The integer nearest to n / d (d > 0), a tie going away from zero.
NearestHalfAwayFromZero(n, d) ==
    IF n >= 0 THEN (2 * n + d) \div (2 * d) ELSE -((2 * (-n) + d) \div (2 * d))

\* C11: for an income above 0 the savings rate is the integer nearest to
\* (income - expense) * 100 / income, a tie going away from zero (a quotient
\* of -1.5 gives -2).
C11_RoundsHalfAwayFromZero ==
    TotalsReturned
    => call.result.savingsRate =
          NearestHalfAwayFromZero((call.income - call.expense) * 100, call.income)

\* The part of C11 that holds: the savings rate is within one half of the
\* exact quotient, and it is the nearest integer when there is no tie.
C11_WithinOneHalf ==
    TotalsReturned
    => LET diff == call.result.savingsRate * call.income
                       - (call.income - call.expense) * 100
       IN  2 * Abs(diff) <= call.income

-----------------------------------------------------------------------------
(* Claims about the budgets                                                *)

\* The categories that have a budget above 0.
Budgeted ==
    {k \in 1..Len(state.categories) :
        "monthlyBudgetCents" \in DOMAIN state.categories[k]
        /\ state.categories[k].monthlyBudgetCents > 0}

\* The expenses of category id dated in the range.
ExpensesInRange(id) ==
    {i \in 1..Len(state.transactions) :
        /\ state.transactions[i].type = "expense"
        /\ state.transactions[i].categoryId = id
        /\ StrLeq(range.min, state.transactions[i].date)
        /\ StrLeq(state.transactions[i].date, range.max)}

RECURSIVE AmountOver(_)
AmountOver(I) ==
    IF I = {} THEN 0
    ELSE LET i == CHOOSE i \in I : TRUE
         IN  state.transactions[i].amountCents + AmountOver(I \ {i})

RECURSIVE SumOver(_, _)
SumOver(rows, field) ==
    IF rows = {} THEN 0
    ELSE LET r == CHOOSE r \in rows : TRUE IN r[field] + SumOver(rows \ {r}, field)

BudgetRows == {budgetStats.rows[k] : k \in 1..Len(budgetStats.rows)}

\* C12: there is one budget row per category with a budget above 0; what
\* remains in a row is its budget minus what was spent, below 0 when more
\* was spent than the budget; and what remains overall is the sum of the
\* budgets minus the sum of what was spent over those rows.
C12_RemainingIsBudgetMinusSpent ==
    /\ Len(budgetStats.rows) = Cardinality(Budgeted)
    /\ \A k \in Budgeted :
          \E r \in BudgetRows :
             /\ r.categoryId = state.categories[k].id
             /\ r.budgetCents = state.categories[k].monthlyBudgetCents
             /\ r.spentCents = AmountOver(ExpensesInRange(r.categoryId))
             /\ r.remainingCents = r.budgetCents - r.spentCents
             /\ r.spentCents > r.budgetCents => r.remainingCents < 0
    /\ budgetStats.totalBudget = SumOver(BudgetRows, "budgetCents")
    /\ budgetStats.totalSpent = SumOver(BudgetRows, "spentCents")
    /\ budgetStats.remaining = budgetStats.totalBudget - budgetStats.totalSpent

\* C12 witness: a budget was changed, a row has spent more than its budget
\* and so have the rows together.
C12_Witness ==
    /\ last.op = "upsertCategoryBudget"
    /\ \E r \in BudgetRows : r.spentCents > r.budgetCents /\ r.remainingCents < 0
    /\ budgetStats.totalSpent > budgetStats.totalBudget
    /\ budgetStats.remaining < 0

-----------------------------------------------------------------------------
(* Claims about previousDateRange                                          *)

PreviousRangeReturned == call.fn = "previousDateRange" /\ call.returned

IsLeapYear(y) == y % 4 = 0 /\ (y % 100 # 0 \/ y % 400 = 0)

DaysBeforeMonth(y, m) ==
    <<0, 31, 59, 90, 120, 151, 181, 212, 243, 273, 304, 334>>[m]
    + (IF m > 2 /\ IsLeapYear(y) THEN 1 ELSE 0)

\* The place in the calendar of the day a text year-mm-dd names, counted in
\* days from the first day of year 1.
CalendarDay(text) ==
    LET y == DigitsValue(SubSeq(text, 1, Len(text) - 6))
        m == DigitsValue(SubSeq(text, Len(text) - 4, Len(text) - 3))
        d == DigitsValue(SubSeq(text, Len(text) - 1, Len(text)))
    IN  365 * (y - 1) + (y - 1) \div 4 - (y - 1) \div 100 + (y - 1) \div 400
        + DaysBeforeMonth(y, m) + d

DaysOf(r) == CalendarDay(r.max) - CalendarDay(r.min) + 1

\* C13: the range previousDateRange returns ends on the day before the
\* first day of the range it was given and has as many days, across the
\* ends of months and years and in leap years.
C13_PreviousRangeAdjacentSameLength ==
    PreviousRangeReturned
    => /\ CalendarDay(call.result.max) = CalendarDay(call.range.min) - 1
       /\ DaysOf(call.result) = DaysOf(call.range)

\* C13 witness: March 2024 was given, and the 31 days that end on 29
\* February 2024 were returned.
C13_Witness ==
    /\ PreviousRangeReturned
    /\ call.range = [min |-> "2024-03-01", max |-> "2024-03-31"]
    /\ call.result = [min |-> "2024-01-30", max |-> "2024-02-29"]

-----------------------------------------------------------------------------
(* Claims about the CSV round trip                                         *)

RoundTripDone ==
    /\ call.fn = "csvEscape" /\ call.returned
    /\ \E i \in 1..Len(call.value) : Char(call.value, i) \in {",", "\""}

DocumentParsed == call.fn = "parseCSVText" /\ call.returned

\* The document of the self test has 3 rows, and cell 1 of row 1 (counted
\* from 0) keeps its comma.
TestDocumentRows ==
    DocumentParsed => Len(call.result) = 3 /\ call.result[2][2] = "Coffee, Shop"

\* C14 as first stated: a field with a comma or a double quote comes back
\* from csvEscape and parseCSVText as one row of one cell equal to the field.
C14_Original_FieldUnchanged ==
    /\ RoundTripDone => call.result = << <<call.value>> >>
    /\ TestDocumentRows

\* C14 as amended: a field with a comma or a double quote comes back as one
\* row of one cell, which is the field without its carriage returns and
\* without the white space around it, hence the field itself when it has
\* neither; the document of the self test has 3 rows and its cell 1 of
\* row 1 is Coffee, Shop.
C14_RoundTripUpToTrim ==
    /\ RoundTripDone => call.result = << <<trim(StripCR(call.value))>> >>
    /\ ( /\ RoundTripDone
         /\ \A i \in 1..Len(call.value) : Char(call.value, i) # "\r"
         /\ ~IsSpace(Char(call.value, 1))
         /\ ~IsSpace(Char(call.value, Len(call.value))) )
       => call.result = << <<call.value>> >>
    /\ TestDocumentRows

\* C14 witness: a field with a quote, a comma and a line feed inside came
\* back unchanged.
C14_Witness ==
    /\ RoundTripDone
    /\ call.value = "\"\n,"
    /\ call.escaped = "\"\"\"\n,\""
    /\ call.result = << <<call.value>> >>

-----------------------------------------------------------------------------
(* Claims about parseMoneyToCents                                          *)

MoneyReturned == call.fn = "parseMoneyToCents" /\ call.returned

\* The digits, '.' and '-' of a text, in their order.
RECURSIVE KeptOf(_)
KeptOf(text) ==
    IF text = "" THEN ""
    ELSE (IF SubSeq(text, 1, 1) \in {"0", "1", "2", "3", "4", "5", "6", "7", "8", "9", ".", "-"}
          THEN SubSeq(text, 1, 1) ELSE "") \o KeptOf(Tail(text))

Unsigned(kept) == IF kept # "" /\ SubSeq(kept, 1, 1) = "-" THEN Tail(kept) ELSE kept

Places(s, c) == {i \in 1..Len(s) : SubSeq(s, i, i) = c}

\* A decimal number: an optional '-' in front, then digits with at most
\* one '.', one digit at least.
IsDecimal(kept) ==
    LET u == Unsigned(kept)
    IN  /\ Places(u, "-") = {}
        /\ Cardinality(Places(u, ".")) <= 1
        /\ Places(u, ".") # 1..Len(u)

\* The digits of a decimal number as an integer, and the power of 10 that
\* divides it.
DecimalDigits(kept) == DigitsValue(DropChar(Unsigned(kept), "."))

DecimalScale(kept) ==
    LET u == Unsigned(kept)
    IN  IF Places(u, ".") = {} THEN 1
        ELSE Pow10(Len(u) - (CHOOSE i \in Places(u, ".") : TRUE))

\* C15: parseMoneyToCents drops every character that is not a digit, '.'
\* or '-'; when what is left is a decimal number it returns an integer
\* nearest to 100 times that number, negative for a negative number
\* ($1,234.56 gives 123456, -10 gives -1000); when what is left is empty,
\* '-', '.' or not a number (abc, the empty text, 1.2.3, 1-2) it returns 0.
C15_ParseMoney ==
    MoneyReturned
    => LET kept == KeptOf(call.input)
           neg  == kept # "" /\ SubSeq(kept, 1, 1) = "-"
       IN  /\ IsDecimal(kept)
              => LET magnitude == IF neg THEN -call.result ELSE call.result
                 IN  /\ magnitude >= 0
                     /\ 2 * Abs(magnitude * DecimalScale(kept) - 100 * DecimalDigits(kept))
                           <= DecimalScale(kept)
           /\ ~IsDecimal(kept) => call.result = 0
           /\ call.input = "$1,234.56" => call.result = 123456
           /\ call.input = "-10" => call.result = -1000
           /\ call.input \in {"abc", "", "1.2.3", "1-2", "-", ".", "$ ,"} => call.result = 0

\* C15 witness: $1,234.56 was parsed and gave 123456.
C15_Witness ==
    /\ MoneyReturned
    /\ call.input = "$1,234.56"
    /\ call.result = 123456

-----------------------------------------------------------------------------
(* Claims about the 'all' preset                                           *)

AllRangeReturned ==
    call.fn = "dateRangeForPreset" /\ call.returned /\ call.preset = "all"

\* C16: whatever day it is, dateRangeForPreset('all') is exactly
\* 1900-01-01 .. 2999-12-31, and the date filter keeps every date from the
\* first day of that span to its last day, both included.
C16_AllPresetKeepsWholeSpan ==
    AllRangeReturned
    => /\ call.result = [min |-> "1900-01-01", max |-> "2999-12-31"]
       /\ (/\ CalendarDay("1900-01-01") <= CalendarDay(call.date)
           /\ CalendarDay(call.date) <= CalendarDay("2999-12-31"))
          => call.kept

\* C16 witness: on a day other than the usual one the 'all' range was
\* computed and the last day of the span passed the filter.
C16_Witness ==
    /\ AllRangeReturned
    /\ today = "2024-02-29"
    /\ call.date = "2999-12-31"
    /\ call.kept

-----------------------------------------------------------------------------
(* Claims about loadState                                                  *)

LoadReturned == call.fn = "loadState" /\ call.returned

\* The stored texts that are JSON with a version of 1, and the value each
\* stands for.
VersionOneTexts == {"{\"version\":1}", "{\"version\":1,\"transactions\":[]}"}

ValueOfText(t) ==
    IF t = "{\"version\":1}" THEN [version |-> 1]
    ELSE [version |-> 1, transactions |-> <<>>]

\* C17: loadState returns what is stored exactly when storage can be read
\* and holds JSON whose version is 1; when nothing is stored, the text does
\* not parse, it is null or another value without a version of 1, or the
\* read throws, it returns the default dataset; it always returns.
C17_LoadStateOrDefault ==
    LoadReturned
    => LET raw == localStorage[STORAGE_KEY] IN
       IF storageFault = "all" THEN call.result = defaultState
       ELSE IF raw.kind = "json" /\ call.wrote.version = 1 THEN call.result = call.wrote
       ELSE IF raw.kind = "text" /\ raw.text \in VersionOneTexts
            THEN call.result = ValueOfText(raw.text)
       ELSE call.result = defaultState

\* C17 witness: a state other than the default one was stored with version
\* 1 and loadState returned it.
C17_Witness ==
    /\ LoadReturned
    /\ call.wrote # <<>>
    /\ call.wrote # defaultState
    /\ call.result = call.wrote

-----------------------------------------------------------------------------
(* Claims about saving the state                                           *)

Mutations ==
    { "addTransaction", "deleteTransaction", "addRule", "deleteRule",
      "upsertCategoryBudget", "setSmartCategorize", "setCurrency", "setHideCents",
      "importFromText", "resetState" }

\* C18: a write to storage that throws, after a mutation or on startup, is
\* caught: the component stays on the page, so that the state in memory keeps
\* the mutation and later mutations still apply.
C18_StorageFailureNotFatal == mounted

\* C19: with working storage, after every mutation and the save that follows
\* it, storage holds the whole current AppState, and loadState returns it.
C19_SavedAfterEveryMutation ==
    (last.op \in Mutations /\ storageFault = "none")
    => /\ localStorage[STORAGE_KEY] = JSONStringify(state)
       /\ loadState = state

\* C19 witness: a transaction was added with working storage and a
\* loadState would return the state with it.
C19_Witness ==
    /\ last.op = "addTransaction"
    /\ storageFault = "none"
    /\ Len(state.transactions) = Len(last.before.transactions) + 1
    /\ loadState = state

-----------------------------------------------------------------------------
(* Claims about the theme                                                  *)

\* C20: when the user has pressed the toggle and storage holds the theme
\* chosen, a change of the system colour scheme leaves the theme as it is,
\* whatever toggles and changes came before.
C20_ChosenThemeOutlivesSystemChange ==
    (/\ last.op = "colorSchemeChange"
     /\ last.arg.chosen
     /\ last.arg.stored = Text(last.arg.theme))
    => theme = last.arg.theme

\* C20 witness: the user chose the dark theme, it was stored, and then the
\* system changed to the light scheme and the theme stayed dark.
C20_Witness ==
    /\ last.op = "colorSchemeChange"
    /\ last.arg.chosen
    /\ last.arg.stored = Text("dark")
    /\ last.arg.theme = "dark"
    /\ ~prefersDark
    /\ theme = "dark"

-----------------------------------------------------------------------------
(* Claims about the filtered list                                          *)

\* term, letter case aside, is a piece of text.
ContainsIgnoringCase(text, term) ==
    \E before \in 0..Len(text) :
        /\ before + Len(term) <= Len(text)
        /\ toLowerCase(SubSeq(text, before + 1, before + Len(term))) = toLowerCase(term)

NameOfCategory(id) ==
    LET named == {k \in 1..Len(state.categories) : state.categories[k].id = id}
    IN  IF named = {} THEN "Unknown"
        ELSE state.categories[CHOOSE k \in named : \A j \in named : k <= j].name

SatisfiesFilters(t) ==
    /\ CalendarDay(range.min) <= CalendarDay(t.date)
    /\ CalendarDay(t.date) <= CalendarDay(range.max)
    /\ accountFilter = "all" \/ t.accountId = accountFilter
    /\ \/ search = ""
       \/ ContainsIgnoringCase(t.merchant, search)
       \/ ContainsIgnoringCase(t.note, search)
       \/ ContainsIgnoringCase(NameOfCategory(t.categoryId), search)

\* C21: the filtered list holds each transaction that is dated in the range,
\* is of the filtered account (or the filter is 'all') and has the search
\* term, letter case aside, in its merchant, its note or the name of its
\* category (or the term is empty), once; it holds nothing else; and no entry
\* is dated before the entry after it.
C21_FilteredExactlyMatching ==
    LET all  == state.transactions
        list == filteredTx
    IN  /\ \A i \in 1..Len(all) :
              Cardinality({k \in 1..Len(list) : list[k] = all[i]})
                  = IF SatisfiesFilters(all[i]) THEN 1 ELSE 0
        /\ \A k \in 1..Len(list) : \E i \in 1..Len(all) : all[i] = list[k]
        /\ \A k \in 1..(Len(list) - 1) :
              CalendarDay(list[k].date) >= CalendarDay(list[k + 1].date)

\* C21 witness: the three filters are all set, each leaves something out,
\* and the term is found in a note only.
C21_Witness ==
    /\ datePreset = "last_90"
    /\ accountFilter = "acc_cc"
    /\ search = "Family"
    /\ Len(filteredTx) = 1
    /\ filteredTx[1].id = "t12"
    /\ \E i \in 1..Len(state.transactions) :
          /\ state.transactions[i].accountId = "acc_cc"
          /\ ~dateInRange(state.transactions[i].date, range.min, range.max)

-----------------------------------------------------------------------------
(* Claims about addRule                                                    *)

PrecedenceMerchants == {"Uber Eats Toronto", "UBER", "Loblaws", "Ramen", "Slob"}

\* C22: addRule with a text that is not blank puts one rule, of the trimmed
\* text and the given category, in front of the rules there were, which keep
\* their order, so that every merchant containing the text gets the new
\* rule's category; addRule with a blank text changes nothing.
C22_AddRulePrepends ==
    last.op = "addRule"
    => LET text == trim(last.arg.contains) IN
       IF text = "" THEN state = last.before
       ELSE /\ Len(state.rules) = Len(last.before.rules) + 1
            /\ Tail(state.rules) = last.before.rules
            /\ Head(state.rules).contains = text
            /\ Head(state.rules).categoryId = last.arg.categoryId
            /\ \A m \in PrecedenceMerchants :
                  ContainsIgnoringCase(m, text)
                  => applySmartCategory(m, state.rules, "cat_other") = last.arg.categoryId

\* C22 witness: the rule "eats" was added for a category while an older
\* rule, "uber", gives another one, and a merchant containing both texts
\* gets the new rule's category.
C22_Witness ==
    /\ last.op = "addRule"
    /\ last.arg.contains = " eats "
    /\ last.arg.categoryId = "cat_eat"
    /\ \E r \in 1..Len(last.before.rules) : last.before.rules[r].contains = "uber"
    /\ applySmartCategory("Uber Eats Toronto", last.before.rules, "cat_other") = "cat_trans"
    /\ applySmartCategory("Uber Eats Toronto", state.rules, "cat_other") = "cat_eat"

-----------------------------------------------------------------------------
(* Claims about what a mutation leaves alone                               *)

\* The AppState is the one before the handler, the named part aside.
OnlyChanged(part) ==
    /\ DOMAIN state = DOMAIN last.before
    /\ \A f \in DOMAIN state \ {part} : state[f] = last.before[f]

\* The categories are the ones before the handler, the budget of the
\* category of the given id aside.
OnlyBudgetChanged(id) ==
    /\ Len(state.categories) = Len(last.before.categories)
    /\ \A k \in 1..Len(state.categories) :
          LET now == state.categories[k]
              was == last.before.categories[k]
          IN  IF was.id # id THEN now = was
              ELSE /\ DOMAIN now = DOMAIN was \cup {"monthlyBudgetCents"}
                   /\ \A f \in DOMAIN was \ {"monthlyBudgetCents"} : now[f] = was[f]

\* C23: addTransaction, deleteTransaction and importFromText change the
\* transactions only; addRule and deleteRule the rules only;
\* upsertCategoryBudget the categories only, and of them only the budget of
\* the category of the given id, nothing when there is none; a change of a
\* setting the settings only.
C23_MutationFrames ==
    /\ last.op \in {"addTransaction", "deleteTransaction", "importFromText"}
       => OnlyChanged("transactions")
    /\ last.op \in {"addRule", "deleteRule"} => OnlyChanged("rules")
    /\ last.op = "upsertCategoryBudget"
       => OnlyChanged("categories") /\ OnlyBudgetChanged(last.arg)
    /\ last.op \in {"setSmartCategorize", "setCurrency", "setHideCents"}
       => OnlyChanged("settings")

\* C23 witness: a budget was set on a category that exists, and a
\* transaction had been deleted and a setting changed before.
C23_Witness ==
    /\ last.op = "upsertCategoryBudget"
    /\ last.arg = "cat_gro"
    /\ state.categories # last.before.categories
    /\ state.transactions # defaultState.transactions
    /\ state.settings # defaultState.settings

-----------------------------------------------------------------------------
(* Claims about the 'last month' window                                    *)

LastMonthReturned == call.fn = "lastMonth" /\ call.returned

DaysInMonth(y, m) ==
    IF m = 2 THEN (IF IsLeapYear(y) THEN 29 ELSE 28)
    ELSE IF m \in {4, 6, 9, 11} THEN 30 ELSE 31

TwoDigits(n) == IF n < 10 THEN "0" \o ToString(n) ELSE ToString(n)

\* The calendar month before the month of the day a text names.
MonthBefore(text) ==
    LET y  == DigitsValue(SubSeq(text, 1, 4))
        m  == DigitsValue(SubSeq(text, 6, 7))
        py == IF m = 1 THEN y - 1 ELSE y
        pm == IF m = 1 THEN 12 ELSE m - 1
    IN  [min |-> ToString(py) \o "-" \o TwoDigits(pm) \o "-01",
         max |-> ToString(py) \o "-" \o TwoDigits(pm) \o "-" \o TwoDigits(DaysInMonth(py, pm))]

\* C24: whatever day it is, the 29th, 30th and 31st of a month included, the
\* last_month preset and the comparison of the insights both run from the
\* first to the last day of the calendar month before the month of today.
C24_LastMonthIsMonthBefore ==
    LastMonthReturned
    => /\ call.preset = MonthBefore(today)
       /\ call.insights = MonthBefore(today)

\* The days on which the window is the month before: those whose number
\* exists in the month before.
C24_MonthBeforeOnDaysItHas ==
    (LastMonthReturned /\ call.preset = MonthBefore(today))
    <=> (/\ LastMonthReturned
         /\ DigitsValue(SubSeq(today, 9, 10))
               <= DaysInMonth(DigitsValue(SubSeq(MonthBefore(today).min, 1, 4)),
                              DigitsValue(SubSeq(MonthBefore(today).min, 6, 7))))

-----------------------------------------------------------------------------
(* Claims about the cashflow series                                        *)

CashflowReturned == call.fn = "cashflow" /\ call.returned

\* Income minus expense over the entries of a list whose place is in I.
RECURSIVE NetOver(_, _)
NetOver(list, I) ==
    IF I = {} THEN 0
    ELSE LET i == CHOOSE x \in I : TRUE
         IN  (IF list[i].type = "income" THEN list[i].amountCents ELSE -list[i].amountCents)
             + NetOver(list, I \ {i})

DatesOf(list) == {list[i].date : i \in 1..Len(list)}

\* The k-th date of a set of dates, the earliest first.
DateAt(dates, k) ==
    CHOOSE d \in dates : Cardinality({e \in dates : CalendarDay(e) < CalendarDay(d)}) = k - 1

\* C25: the series has one point for each date among the filtered
\* transactions, the earlier date first, each point holds the sum of income
\* minus expense over the filtered transactions dated on that date or
\* before it, and the last point holds the net of the totals.
C25_CashflowRunningNet ==
    CashflowReturned
    => LET list   == call.filtered
           dates  == DatesOf(list)
           points == call.result
       IN  /\ Len(points) = Cardinality(dates)
           /\ \A k \in 1..Len(points) :
                 LET day == DateAt(dates, k) IN
                 /\ points[k].date = SubSeq(day, 6, 10)
                 /\ points[k].runningCents
                       = NetOver(list, {i \in 1..Len(list) :
                                           CalendarDay(list[i].date) <= CalendarDay(day)})
           /\ Len(points) > 0 => points[Len(points)].runningCents = call.totals.net

\* C25 witness: two transactions of one day and one of a later day gave two
\* points, and the last holds the net of the three.
C25_Witness ==
    /\ CashflowReturned
    /\ Len(call.filtered) = 3
    /\ Len(call.result) = 2
    /\ call.result[1].runningCents # call.result[2].runningCents
    /\ call.input[1].date = call.input[3].date
    /\ call.result[2].runningCents = call.totals.net

-----------------------------------------------------------------------------
(* Claims about what the budget and the pie are computed from              *)

\* The transactions dated in the range, whatever their account and text.
InRangeTx ==
    SelectSeq(state.transactions,
              LAMBDA t : /\ CalendarDay(range.min) <= CalendarDay(t.date)
                         /\ CalendarDay(t.date) <= CalendarDay(range.max))

\* The expenses of a category among the transactions that satisfy the three
\* filters.
FilteredExpenses(id) ==
    {i \in 1..Len(state.transactions) :
        /\ state.transactions[i].type = "expense"
        /\ state.transactions[i].categoryId = id
        /\ SatisfiesFilters(state.transactions[i])}

PieFollowsFilters ==
    /\ \A k \in 1..Len(categoryPie) :
          /\ categoryPie[k].value = AmountOver(FilteredExpenses(categoryPie[k].categoryId))
          /\ FilteredExpenses(categoryPie[k].categoryId) # {}
    /\ \A i \in 1..Len(state.transactions) :
          FilteredExpenses(state.transactions[i].categoryId) # {}
          => \E k \in 1..Len(categoryPie) :
                categoryPie[k].categoryId = state.transactions[i].categoryId

\* What the state and the range alone make of the budget: for each category
\* with a budget, what was spent on it by the transactions dated in the
\* range, of every account and with every text.
SpentInRange(id) ==
    {i \in 1..Len(state.transactions) :
        /\ state.transactions[i].type = "expense"
        /\ state.transactions[i].categoryId = id
        /\ CalendarDay(range.min) <= CalendarDay(state.transactions[i].date)
        /\ CalendarDay(state.transactions[i].date) <= CalendarDay(range.max)}

BudgetRowsOfRange ==
    {[categoryId     |-> state.categories[k].id,
      budgetCents    |-> state.categories[k].monthlyBudgetCents,
      spentCents     |-> AmountOver(SpentInRange(state.categories[k].id)),
      remainingCents |-> state.categories[k].monthlyBudgetCents
                            - AmountOver(SpentInRange(state.categories[k].id))] :
        k \in Budgeted}

\* C26: whatever the account filter and the search term are, the budget
\* rows and the budget totals are the ones the state and the date range
\* alone give, so they are the same for every account filter and search
\* term; the slices of the pie are the expenses per category of the
\* transactions that pass all three filters.
C26_BudgetIgnoresAccountAndSearch ==
    /\ BudgetRows = BudgetRowsOfRange
    /\ budgetStats.totalBudget = SumOver(BudgetRowsOfRange, "budgetCents")
    /\ budgetStats.totalSpent = SumOver(BudgetRowsOfRange, "spentCents")
    /\ budgetStats.remaining = SumOver(BudgetRowsOfRange, "remainingCents")
    /\ PieFollowsFilters

\* C26 witness: an account and a search term are set that leave no expense
\* in the filtered list, so that the pie is empty, and the budget rows still
\* hold what was spent in the range.
C26_Witness ==
    /\ datePreset = "this_month"
    /\ accountFilter = "acc_cheq"
    /\ search = "gro"
    /\ categoryPie = <<>>
    /\ PieOf(InRangeTx) # <<>>
    /\ budgetStats.totalSpent > 0
    /\ \E k \in 1..Len(budgetStats.rows) :
          /\ budgetStats.rows[k].categoryId = "cat_gro"
          /\ budgetStats.rows[k].spentCents > 0


\* What the suggestion effect depends on: the merchant and the type of the
\* form, the rule list and the "smart categorize" flag.
SuggestionInputs == <<txMerchant, txType, state.rules, state.settings.smartCategorize>>

\* The form is emptied by an accepted "add transaction", which sets the
\* merchant, the type and the category of the form itself.
FormReset == last'.op = "addTransaction" /\ state'.transactions # state.transactions

-----------------------------------------------------------------------------
(* Claims about the system theme                                           *)

\* The theme of the system colour scheme.
SystemTheme == IF prefersDark THEN "dark" ELSE "light"

\* C28: on a first visit, as long as the user has not pressed the toggle,
\* a change of the system colour scheme leaves the theme equal to the one
\* of the system, 'dark' when the scheme is dark and 'light' otherwise.
C28_SystemThemeFollowed ==
    (last.op = "colorSchemeChange" /\ ~last.arg.chosen) => theme = SystemTheme

\* What the code does in that case: the theme follows the system exactly
\* when the handler finds nothing under THEME_KEY, which after the first
\* render is so only once the storage was cleared or could not be written.
C28_FollowedWhenNothingStored ==
    (last.op = "colorSchemeChange" /\ ~last.arg.chosen /\ storageFault # "all")
    => IF FalsyItem(last.arg.stored) THEN theme = SystemTheme
       ELSE theme = last.arg.theme

\* The system went dark on a first visit, the toggle was never pressed,
\* and the theme is still the light one the first render stored.
C28_StoredAtMountWins ==
    /\ last.op = "colorSchemeChange"
    /\ ~last.arg.chosen
    /\ last.arg.stored = Text("light")
    /\ prefersDark
    /\ theme = "light"


-----------------------------------------------------------------------------
(* Claims about the previous period                                        *)

\* The transactions of the previous window that pass the account filter
\* and the search term of the current list, in the order of the list.
PreviousUnderCurrentFilters ==
    SelectSeq(state.transactions,
              LAMBDA t : /\ dateInRange(t.date, previousRangeWindow.min, previousRangeWindow.max)
                         /\ accountFilter = "all" \/ t.accountId = accountFilter
                         /\ \/ search = ""
                            \/ ContainsIgnoringCase(t.merchant, search)
                            \/ ContainsIgnoringCase(t.note, search)
                            \/ ContainsIgnoringCase(NameOfCategory(t.categoryId), search))

\* C29: the transactions of the previous period are those of the previous
\* window that pass the account filter and the search term of the current
\* list, so that previousTotals is the totals of the same selection one
\* window earlier.
C29_PreviousUnderSameFilters ==
    /\ previousRangeTx = PreviousUnderCurrentFilters
    /\ previousTotals = TotalsOf(PreviousUnderCurrentFilters)

\* What the code does: the account filter is applied to the previous
\* period, and the two selections agree while nothing is searched for.
C29_SameFiltersWithoutSearch ==
    /\ \A i \in 1..Len(previousRangeTx) : AccountPasses(previousRangeTx[i])
    /\ safeLower(search) = "" => previousRangeTx = PreviousUnderCurrentFilters

\* "PAY" is searched for and the previous period holds a transaction that
\* does not match it, which previousTotals counts.
C29_UnsearchedPrevious ==
    /\ search = "PAY"
    /\ Len(filteredTx) > 0
    /\ \E i \in 1..Len(previousRangeTx) : ~SearchPasses(previousRangeTx[i])
    /\ previousTotals.net # TotalsOf(PreviousUnderCurrentFilters).net


-----------------------------------------------------------------------------
(* Claims about the budget input                                           *)

BlurredUnedited == last.op = "budgetInputBlur" /\ ~last.arg.edited

\* C30: when the input of a budget lost the focus with its text not
\* edited, the budget of that category is the one it was, a budget that is
\* not a whole number of currency units as well; and after any budget edits
\* no budget is below 0.
C30_BlurKeepsUneditedBudget ==
    /\ BlurredUnedited =>
          ValueCents(state, last.arg.categoryId) = ValueCents(last.before, last.arg.categoryId)
    /\ \A k \in 1..Len(state.categories) : BudgetOf(state.categories[k]) >= 0

\* What the code does: when the input shows the text the component made
\* of the budget, an unedited blur sets the budget to the nearest whole
\* number of currency units, halves going up, which keeps a budget that is
\* whole; when it shows a text typed before that stood for the budget, the
\* budget is kept; and no budget is below 0.
C30_BlurRoundsToWholeUnits ==
    /\ BlurredUnedited =>
          LET was == ValueCents(last.before, last.arg.categoryId)
              now == ValueCents(state, last.arg.categoryId)
          IN  IF last.arg.value = ToFixed0(was)
              THEN /\ now % 100 = 0
                   /\ was % 100 < 50 => now = was - (was % 100)
                   /\ was % 100 >= 50 => now = was - (was % 100) + 100
              ELSE now = was
    /\ \A k \in 1..Len(state.categories) : BudgetOf(state.categories[k]) >= 0

\* The budget of groceries was 15050 cents, the input showed "151", and
\* the blur without an edit has made the budget 15100 cents.
C30_UneditedBlurChangesBudget ==
    /\ BlurredUnedited
    /\ last.arg.categoryId = "cat_gro"
    /\ last.arg.value = "151"
    /\ ValueCents(last.before, "cat_gro") = 15050
    /\ ValueCents(state, "cat_gro") = 15100

====
